---- MODULE Spec2Model ----
(***************************************************************************)
(* HexGoban: the hexagonal goban editor and Go rules engine of             *)
(* src/sketch.js, as a state machine.                                      *)
(*                                                                         *)
(* Conventions of the model                                                *)
(*  - Arrays are sequences; an id is the element's index in its array.     *)
(*    JavaScript ids start at 0, the ids here start at 1 (id = JS id + 1). *)
(*    The undo indices keep their JavaScript values (-1, 0, 1, ...).       *)
(*  - A position is kept in the lattice basis e1 = (1,0),                  *)
(*    e2 = (1/2, sqrt3/2): the pixel position of [x, y] is                 *)
(*    centre + (x + y/2, y*sqrt3/2) / Res.  In this basis the rotations by *)
(*    120 and 240 degrees, midpoints, centroids, the sign of a cross       *)
(*    product and the order of atan2 angles are exact integer             *)
(*    computations.  Divisions are integer divisions.                     *)
(*  - null is 0 where an id is expected and the empty function where a    *)
(*    stone map is expected.                                               *)
(***************************************************************************)
EXTENDS Integers, Sequences, FiniteSets, TLC

\* radius of the hexagon built by buildGrid (hexRadius)
HexRadius == 2
\* sub-pixel resolution of a coordinate
Res == 6
\* distance between lattice neighbours, in pixels
spacing == 50

\* null and undefined where an id is expected (ids start at 1)
null == 0
\* the value of a property that was never assigned
undefined == "undefined"
\* null where a stone map is expected
nullBoard == <<>>
\* the area of a quad whose area was never computed (undefined)
noArea == 0 - 1

VARIABLES
  vertices,            \* Seq of [id,q,r,x,y,type,neighbors,triangles,quads,peers,visible]
  edges,               \* Seq of [id,a,b,mid,active]
  edgeTris,            \* edge key <<a,b>> -> Seq of triangle ids
  triangles,           \* Seq of [id,verts,active]
  quads,               \* Seq of [id,verts,active,area]
  mode,                \* 'move-vertex' | 'delete-edge' | 'select' | 'play'
  hoverVertex,         \* vertex id under the mouse, or null
  hoverEdge,           \* edge id under the mouse, or null
  dragging,            \* vertex id being dragged, or null
  dragStateCapture,    \* window.dragStateCapture
  relaxing, relaxFrame, relaxMaxFrames,
  autoRemoving,        \* the flag of the tick-driven quadrangulation
  gameStones,          \* vertex id -> "black" | "white" | "none"
  currentPlayer,
  capturedBlack, capturedWhite,
  previousBoardState,  \* null or a stone map
  gobanUndoStack, gobanUndoIndex,
  gameUndoStack, gameUndoIndex,
  lastOp,              \* history variable: the last call of placeStone, of a mesh
                       \* operation, of undo(), of redo() or of draw(), and its outcome
  preOp,               \* history variable: the live state before the last mutating
                       \* operation, while no undo() or redo() has followed it
  preUndo              \* history variable: the live state before the undo() that ran last

meshVars == <<vertices, edges, edgeTris, triangles, quads>>
uiVars == <<mode, hoverVertex, hoverEdge, dragging, dragStateCapture>>
relaxVars == <<relaxing, relaxFrame, relaxMaxFrames, autoRemoving>>
gameVars == <<gameStones, currentPlayer, capturedBlack, capturedWhite, previousBoardState>>
gobanHistVars == <<gobanUndoStack, gobanUndoIndex>>
gameHistVars == <<gameUndoStack, gameUndoIndex>>
ghostVars == <<lastOp, preOp, preUndo>>
vars == <<meshVars, uiVars, relaxVars, gameVars, gobanHistVars, gameHistVars, ghostVars>>

----------------------------------------------------------------------------
\* Generic helpers

Max(a, b) == IF a >= b THEN a ELSE b
Abs(a) == IF a >= 0 THEN a ELSE 0 - a
Range(s) == {s[i] : i \in DOMAIN s}

SetToSortedSeq(S) ==
  [i \in 1..Cardinality(S) |-> CHOOSE x \in S : Cardinality({y \in S : y < x}) = i - 1]

RECURSIVE SumSeq(_)
SumSeq(s) == IF s = <<>> THEN 0 ELSE Head(s) + SumSeq(Tail(s))

\* the mesh as one record (the live topology store)
Mesh == [vertices |-> vertices, edges |-> edges, edgeTris |-> edgeTris,
         triangles |-> triangles, quads |-> quads]

----------------------------------------------------------------------------
\* Geometry helpers

dirAxial == << <<1, 0>>, <<0, 1>>, <<-1, 1>>, <<-1, 0>>, <<0, -1>>, <<1, -1>> >>

edgeKey(a, b) == IF a < b THEN <<a, b>> ELSE <<b, a>>

axialDist(q, r) == Max(Max(Abs(q), Abs(r)), Abs(0 - q - r))

axialToPixel(q, r) == [x |-> spacing * Res * q, y |-> spacing * Res * r]

rotateAxial120(q, r) == [q |-> 0 - q - r, r |-> q]
rotateAxial240(q, r) == [q |-> r, r |-> 0 - q - r]

rotateVec(x, y, deg) ==
  IF deg = 120 THEN [x |-> 0 - x - y, y |-> x]
  ELSE IF deg = 240 THEN [x |-> y, y |-> 0 - x - y]
  ELSE [x |-> x, y |-> y]

\* orderPolygon: the ids sorted by atan2 of the offset from the centroid
\* (Array.prototype.sort is stable: equal angles keep their input order).
\* halfOf is the atan2 range of an offset d (scaled by the number of points):
\* 0: angle in (-pi,0), 1: angle 0, 2: angle in (0,pi), 3: angle pi.
halfOf(d) ==
  IF d.y < 0 THEN 0
  ELSE IF d.y > 0 THEN 2
  ELSE IF d.x >= 0 THEN 1 ELSE 3

angleLess(d1, d2) ==
  IF halfOf(d1) # halfOf(d2) THEN halfOf(d1) < halfOf(d2)
  ELSE IF halfOf(d1) \in {1, 3} THEN FALSE
  ELSE d1.x * d2.y - d1.y * d2.x > 0

orderPolygonIn(vs, ids) ==
  LET n == Len(ids)
      sx == SumSeq([i \in 1..n |-> vs[ids[i]].x])
      sy == SumSeq([i \in 1..n |-> vs[ids[i]].y])
      off(i) == [x |-> n * vs[ids[i]].x - sx, y |-> n * vs[ids[i]].y - sy]
      before(j, i) == \/ angleLess(off(j), off(i))
                      \/ (~angleLess(off(i), off(j)) /\ j < i)
      rank(i) == Cardinality({j \in 1..n : j # i /\ before(j, i)}) + 1
  IN [k \in 1..n |-> ids[CHOOSE i \in 1..n : rank(i) = k]]

----------------------------------------------------------------------------
\* Grid construction (buildGrid)

\* the two nested loops without the test on s = -q - r
ValidCoordsSquare ==
  {c \in (0 - HexRadius..HexRadius) \X (0 - HexRadius..HexRadius) : TRUE}

ValidCoords ==
  {c \in (0 - HexRadius..HexRadius) \X (0 - HexRadius..HexRadius) :
     axialDist(c[1], c[2]) <= HexRadius}

\* scan order of the two nested loops: q ascending, then r ascending
coordBefore(c, d) == c[1] < d[1] \/ (c[1] = d[1] /\ c[2] < d[2])

coordToId(q, r) ==
  IF <<q, r>> \in ValidCoords
  THEN Cardinality({c \in ValidCoords : coordBefore(c, <<q, r>>)}) + 1
  ELSE null

GridCoords ==
  [i \in 1..Cardinality(ValidCoords) |->
     CHOOSE c \in ValidCoords : coordToId(c[1], c[2]) = i]

neighborId(c, delta) ==
  coordToId(c[1] + delta[1], c[2] + delta[2])

\* the triangles in creation order: for each vertex, for each direction pair
gridTriangleCands ==
  [k \in 1..(6 * Len(GridCoords)) |->
     LET v == ((k - 1) \div 6) + 1
         i == ((k - 1) % 6) + 1
         n1 == neighborId(GridCoords[v], dirAxial[i])
         n2 == neighborId(GridCoords[v], dirAxial[(i % 6) + 1])
     IN [v |-> v, n1 |-> n1, n2 |-> n2]]

gridTriangles ==
  LET sel == SelectSeq(gridTriangleCands,
                       LAMBDA c : c.n1 # null /\ c.n2 # null /\ c.v < c.n1 /\ c.v < c.n2)
  IN [t \in 1..Len(sel) |->
        [id |-> t, verts |-> <<sel[t].v, sel[t].n1, sel[t].n2>>, active |-> TRUE]]

\* the edges in creation order: for each vertex, for each direction
gridEdgeCands ==
  [k \in 1..(6 * Len(GridCoords)) |->
     LET v == ((k - 1) \div 6) + 1
         i == ((k - 1) % 6) + 1
     IN [a |-> v, b |-> neighborId(GridCoords[v], dirAxial[i])]]

gridEdges ==
  LET sel == SelectSeq(gridEdgeCands, LAMBDA c : c.b # null /\ c.a < c.b)
      pos(v) == axialToPixel(GridCoords[v][1], GridCoords[v][2])
  IN [e \in 1..Len(sel) |->
        [id |-> e, a |-> sel[e].a, b |-> sel[e].b,
         mid |-> [x |-> (pos(sel[e].a).x + pos(sel[e].b).x) \div 2,
                  y |-> (pos(sel[e].a).y + pos(sel[e].b).y) \div 2],
         active |-> TRUE]]

triHasEdge(t, k) == k[1] \in Range(t.verts) /\ k[2] \in Range(t.verts)

\* addEdgeTriangle for every triangle of ts (only the active ones when
\* activeOnly), in array order
edgeTrisOf(ts, activeOnly) ==
  LET keep(t) == activeOnly => t.active
      keys == UNION {{edgeKey(ts[t].verts[1], ts[t].verts[2]),
                      edgeKey(ts[t].verts[2], ts[t].verts[3]),
                      edgeKey(ts[t].verts[3], ts[t].verts[1])} :
                     t \in {u \in DOMAIN ts : keep(ts[u])}}
  IN [k \in keys |->
        LET idx == SetToSortedSeq({u \in DOMAIN ts : keep(ts[u]) /\ triHasEdge(ts[u], k)})
        IN [j \in 1..Len(idx) |-> ts[idx[j]].id]]

gridVertices ==
  [v \in 1..Len(GridCoords) |->
     LET q == GridCoords[v][1]
         r == GridCoords[v][2]
         id1 == coordToId(rotateAxial120(q, r).q, rotateAxial120(q, r).r)
         id2 == coordToId(rotateAxial240(q, r).q, rotateAxial240(q, r).r)
     IN [id |-> v, q |-> q, r |-> r,
         x |-> axialToPixel(q, r).x, y |-> axialToPixel(q, r).y,
         type |-> IF axialDist(q, r) = HexRadius THEN "edge" ELSE "inner",
         neighbors |-> {neighborId(GridCoords[v], dirAxial[i]) : i \in 1..6} \ {null},
         triangles |-> {t \in DOMAIN gridTriangles : v \in Range(gridTriangles[t].verts)},
         quads |-> {},
         peers |-> <<v, IF id1 = null THEN v ELSE id1,
                        IF id2 = null THEN v ELSE id2>>,
         visible |-> undefined]]

\* mutant of buildGrid: every triangle is entered twice in the
\* edge-to-triangle index
buildGridIndexedTwice ==
  [vertices |-> gridVertices, edges |-> gridEdges,
   edgeTris |-> [k \in DOMAIN edgeTrisOf(gridTriangles, FALSE) |->
                   edgeTrisOf(gridTriangles, FALSE)[k] \o edgeTrisOf(gridTriangles, FALSE)[k]],
   triangles |-> gridTriangles, quads |-> <<>>]

buildGrid ==
  [vertices |-> gridVertices, edges |-> gridEdges,
   edgeTris |-> edgeTrisOf(gridTriangles, FALSE),
   triangles |-> gridTriangles, quads |-> <<>>]

----------------------------------------------------------------------------
\* Edges rebuilt from the active quads (rebuildEdgesFromFaces), visibility

RECURSIVE quadSidesFrom(_, _, _)
\* the sides <<v1, v2>> of the active quads lo..hi of qs, in the order of the
\* loops of rebuildEdgesFromFaces
quadSidesFrom(qs, lo, hi) ==
  IF lo > hi THEN <<>>
  ELSE IF lo = hi
  THEN (IF qs[lo].active
        THEN LET n == Len(qs[lo].verts)
             IN [j \in 1..n |-> <<qs[lo].verts[j], qs[lo].verts[(j % n) + 1]>>]
        ELSE <<>>)
  ELSE quadSidesFrom(qs, lo, (lo + hi) \div 2) \o quadSidesFrom(qs, (lo + hi) \div 2 + 1, hi)

\* mutant of rebuildEdgesFromFaces: the neighbour relation is recorded in
\* one direction only
rebuildEdgesOneWay(m) ==
  LET sides == quadSidesFrom(m.quads, 1, Len(m.quads))
      first(j) == \A i \in 1..(j - 1) :
                    edgeKey(sides[i][1], sides[i][2]) # edgeKey(sides[j][1], sides[j][2])
      idx == SetToSortedSeq({j \in DOMAIN sides : first(j)})
      vs == m.vertices
  IN [m EXCEPT
        !.edges = [e \in 1..Len(idx) |->
                     LET v1 == sides[idx[e]][1]
                         v2 == sides[idx[e]][2]
                     IN [id |-> e, a |-> v1, b |-> v2,
                         mid |-> [x |-> (vs[v1].x + vs[v2].x) \div 2,
                                  y |-> (vs[v1].y + vs[v2].y) \div 2],
                         active |-> TRUE]],
        !.edgeTris = <<>>,
        !.vertices = [v \in DOMAIN vs |->
                        [vs[v] EXCEPT !.neighbors =
                           {sides[j][2] : j \in {i \in DOMAIN sides : sides[i][1] = v}}]]]

rebuildEdgesFromFaces(m) ==
  LET sides == quadSidesFrom(m.quads, 1, Len(m.quads))
      first(j) == \A i \in 1..(j - 1) :
                    edgeKey(sides[i][1], sides[i][2]) # edgeKey(sides[j][1], sides[j][2])
      idx == SetToSortedSeq({j \in DOMAIN sides : first(j)})
      vs == m.vertices
  IN [m EXCEPT
        !.edges = [e \in 1..Len(idx) |->
                     LET v1 == sides[idx[e]][1]
                         v2 == sides[idx[e]][2]
                     IN [id |-> e, a |-> v1, b |-> v2,
                         mid |-> [x |-> (vs[v1].x + vs[v2].x) \div 2,
                                  y |-> (vs[v1].y + vs[v2].y) \div 2],
                         active |-> TRUE]],
        !.edgeTris = <<>>,
        !.vertices = [v \in DOMAIN vs |->
                        [vs[v] EXCEPT !.neighbors =
                           {sides[j][2] : j \in {i \in DOMAIN sides : sides[i][1] = v}} \cup
                           {sides[j][1] : j \in {i \in DOMAIN sides : sides[i][2] = v}}]]]

markVisibleVertices(m) ==
  LET used == UNION {Range(m.quads[i].verts) : i \in {j \in DOMAIN m.quads : m.quads[j].active}}
  IN [m EXCEPT !.vertices =
        [v \in DOMAIN m.vertices |->
           [m.vertices[v] EXCEPT !.visible = IF v \in used THEN "true" ELSE "false"]]]

\* restoreGoban(data) up to the capture of the 'load' snapshot
restoreGoban(data) ==
  LET vs == [i \in DOMAIN data.vertices |->
               [id |-> data.vertices[i].id, q |-> data.vertices[i].q, r |-> data.vertices[i].r,
                x |-> data.vertices[i].x, y |-> data.vertices[i].y,
                type |-> data.vertices[i].type,
                neighbors |-> {}, triangles |-> {}, quads |-> {},
                peers |-> data.vertices[i].peers, visible |-> "true"]]
      qs == [i \in DOMAIN data.quads |->
               [id |-> i, verts |-> data.quads[i].verts, active |-> TRUE, area |-> noArea]]
  IN markVisibleVertices(rebuildEdgesFromFaces(
       [vertices |-> vs, edges |-> <<>>, edgeTris |-> <<>>, triangles |-> <<>>, quads |-> qs]))

----------------------------------------------------------------------------
\* Editing operations on a mesh m (the five mesh variables as one record)

\* edgeByKey.get(k): the id of the edge with key k, or null (undefined)
edgeByKey(es, k) ==
  IF \E e \in DOMAIN es : edgeKey(es[e].a, es[e].b) = k
  THEN CHOOSE e \in DOMAIN es : edgeKey(es[e].a, es[e].b) = k
  ELSE null

\* (edgeTris.get(k) || []).filter((t) => triangles[t]?.active)
activeTrisOf(m, k) ==
  IF k \in DOMAIN m.edgeTris
  THEN SelectSeq(m.edgeTris[k],
                 LAMBDA t : t \in DOMAIN m.triangles /\ m.triangles[t].active)
  ELSE <<>>

\* e.mid = (a + b) / 2 for the edges of the set touched
withMidpoints(m, touched) ==
  [m EXCEPT !.edges =
     [e \in DOMAIN m.edges |->
        IF e \in touched
        THEN [m.edges[e] EXCEPT
                !.mid = [x |-> (m.vertices[m.edges[e].a].x + m.vertices[m.edges[e].b].x) \div 2,
                         y |-> (m.vertices[m.edges[e].a].y + m.vertices[m.edges[e].b].y) \div 2]]
        ELSE m.edges[e]]]

deactivateTriangle(m, tid) ==
  IF tid \notin DOMAIN m.triangles \/ ~m.triangles[tid].active THEN m
  ELSE [m EXCEPT
          !.triangles[tid].active = FALSE,
          !.vertices = [v \in DOMAIN m.vertices |->
                          IF v \in Range(m.triangles[tid].verts)
                          THEN [m.vertices[v] EXCEPT !.triangles = @ \ {tid}]
                          ELSE m.vertices[v]]]

\* t.verts.find((v) => v !== a && v !== b)
otherVertex(t, a, b) ==
  LET rest == SelectSeq(t.verts, LAMBDA v : v # a /\ v # b)
  IN IF rest = <<>> THEN null ELSE rest[1]

\* deleteEdgeSingle without the test on the number of active triangles: the
\* edge is deactivated whatever shares it
deleteEdgeSingleAnyCount(m, edgeId) ==
  IF edgeId \notin DOMAIN m.edges \/ ~m.edges[edgeId].active THEN m
  ELSE [m EXCEPT !.edges[edgeId].active = FALSE]

deleteEdgeSingle(m, edgeId) ==
  IF edgeId \notin DOMAIN m.edges \/ ~m.edges[edgeId].active THEN m
  ELSE LET edge == m.edges[edgeId]
           tris == activeTrisOf(m, edgeKey(edge.a, edge.b))
       IN IF Len(tris) # 2 THEN m
          ELSE LET other0 == otherVertex(m.triangles[tris[1]], edge.a, edge.b)
                   other1 == otherVertex(m.triangles[tris[2]], edge.a, edge.b)
                   m1 == deactivateTriangle(
                           deactivateTriangle([m EXCEPT !.edges[edgeId].active = FALSE],
                                              tris[1]), tris[2])
                   ordered == orderPolygonIn(m.vertices, <<edge.a, other0, edge.b, other1>>)
                   qid == Len(m.quads) + 1
               IN [m1 EXCEPT
                     !.quads = Append(m.quads, [id |-> qid, verts |-> ordered,
                                                active |-> TRUE, area |-> noArea]),
                     !.vertices =
                        [v \in DOMAIN m1.vertices |->
                           [m1.vertices[v] EXCEPT
                              !.neighbors = IF v = edge.a THEN @ \ {edge.b}
                                            ELSE IF v = edge.b THEN @ \ {edge.a} ELSE @,
                              !.quads = IF v \in Range(ordered) THEN @ \cup {qid} ELSE @]]]

RECURSIVE deleteEdges(_, _)
\* for (const id of toDelete) deleteEdgeSingle(id)
deleteEdges(m, toDelete) ==
  IF toDelete = <<>> THEN m
  ELSE deleteEdges(deleteEdgeSingle(m, Head(toDelete)), Tail(toDelete))

\* toDelete with the edge alone, without its orbit counterparts
peerEdgesSelfOnly(m, e) ==
  <<edgeByKey(m.edges, edgeKey(e.a, e.b))>>

\* the Set toDelete of deleteEdgeMirrored, in insertion order
peerEdges(m, e) ==
  LET ids == [i \in 1..3 |->
                edgeByKey(m.edges, edgeKey(m.vertices[e.a].peers[i], m.vertices[e.b].peers[i]))]
      keep(i) == ids[i] # null /\ \A j \in 1..(i - 1) : ids[j] # ids[i]
      idx == SetToSortedSeq({i \in 1..3 : keep(i)})
  IN [j \in 1..Len(idx) |-> ids[idx[j]]]

\* deleteEdgeMirrored(edgeId), after its captureState('edge-delete')
deleteEdgeMirrored(m, edgeId) ==
  IF edgeId \notin DOMAIN m.edges \/ ~m.edges[edgeId].active THEN m
  ELSE deleteEdges(m, peerEdges(m, m.edges[edgeId]))

refreshEdgeMidpoints(m, peerIds) ==
  withMidpoints(m,
    UNION {{edgeByKey(m.edges, edgeKey(pid, nid)) : nid \in m.vertices[pid].neighbors} :
             pid \in Range(peerIds)} \ {null})

\* peerShift without the rotation of the displacement
peerShiftUnrotated(peers, pid, dx, dy) ==
  [x |-> SumSeq([i \in 1..3 |-> IF peers[i] = pid THEN dx ELSE 0]),
   y |-> SumSeq([i \in 1..3 |-> IF peers[i] = pid THEN dy ELSE 0])]

\* the displacement of vertex pid when the peers are moved by (dx, dy):
\* the sum over the positions i that pid takes in peers
peerShift(peers, pid, dx, dy) ==
  LET d(i) == IF i = 2 THEN rotateVec(dx, dy, 120)
              ELSE IF i = 3 THEN rotateVec(dx, dy, 240)
              ELSE [x |-> dx, y |-> dy]
  IN [x |-> SumSeq([i \in 1..3 |-> IF peers[i] = pid THEN d(i).x ELSE 0]),
      y |-> SumSeq([i \in 1..3 |-> IF peers[i] = pid THEN d(i).y ELSE 0])]

\* mutant of moveVertexMirrored: border and centre vertices move too
moveVertexMirroredAnyType(m, vid, dx, dy) ==
  LET base == m.vertices[vid]
  IN refreshEdgeMidpoints(
       [m EXCEPT !.vertices =
          [v \in DOMAIN m.vertices |->
             [m.vertices[v] EXCEPT
                !.x = @ + peerShift(base.peers, v, dx, dy).x,
                !.y = @ + peerShift(base.peers, v, dx, dy).y]]],
       base.peers)

\* moveVertexMirrored(vid, dx, dy), after its captureState('vertex-move')
moveVertexMirrored(m, vid, dx, dy) ==
  LET base == m.vertices[vid]
  IN IF base.type = "edge" \/ base.type = "center" THEN m
     ELSE refreshEdgeMidpoints(
            [m EXCEPT !.vertices =
               [v \in DOMAIN m.vertices |->
                  [m.vertices[v] EXCEPT
                     !.x = @ + peerShift(base.peers, v, dx, dy).x,
                     !.y = @ + peerShift(base.peers, v, dx, dy).y]]],
            base.peers)

\* pickEdge: only an active edge between two active triangles can be picked
pickable(m, e) ==
  /\ e \in DOMAIN m.edges
  /\ m.edges[e].active
  /\ Len(activeTrisOf(m, edgeKey(m.edges[e].a, m.edges[e].b))) = 2

----------------------------------------------------------------------------
\* Guaranteed quadrangulation (applyGuaranteedQuadrangulation and its steps)

vertexDist(v) == axialDist(v.q, v.r)

deactivateFacesOutsideRadius(m, maxRadius) ==
  LET outside(f) == \E i \in DOMAIN f.verts : vertexDist(m.vertices[f.verts[i]]) > maxRadius
  IN [m EXCEPT
        !.triangles = [t \in DOMAIN m.triangles |->
                         IF m.triangles[t].active /\ outside(m.triangles[t])
                         THEN [m.triangles[t] EXCEPT !.active = FALSE] ELSE m.triangles[t]],
        !.quads = [q \in DOMAIN m.quads |->
                     IF m.quads[q].active /\ outside(m.quads[q])
                     THEN [m.quads[q] EXCEPT !.active = FALSE] ELSE m.quads[q]]]

\* mutant of markBorderVertices: no vertex is marked
markBorderVerticesNone(m, borderRadius) == m

markBorderVertices(m, borderRadius) ==
  [m EXCEPT !.vertices =
     [v \in DOMAIN m.vertices |->
        IF vertexDist(m.vertices[v]) = borderRadius
        THEN [m.vertices[v] EXCEPT !.type = "edge"] ELSE m.vertices[v]]]

\* positions are relative to the centre of the canvas
scaleGridByFactor(m, factor) ==
  LET m1 == [m EXCEPT !.vertices =
               [v \in DOMAIN m.vertices |->
                  [m.vertices[v] EXCEPT !.x = @ * factor, !.y = @ * factor]]]
  IN withMidpoints(m1, {e \in DOMAIN m1.edges : m1.edges[e].active})

\* the pairs [i, j, shared] of active triangles that share two vertices
trianglePairs(m) ==
  {p \in (DOMAIN m.triangles) \X (DOMAIN m.triangles) :
     /\ p[1] < p[2]
     /\ m.triangles[p[1]].active /\ m.triangles[p[2]].active
     /\ Cardinality(Range(m.triangles[p[1]].verts) \cap Range(m.triangles[p[2]].verts)) = 2}

\* shared = triangles[i].verts.filter(v => triangles[j].verts.includes(v))
sharedVerts(m, p) ==
  SelectSeq(m.triangles[p[1]].verts, LAMBDA v : v \in Range(m.triangles[p[2]].verts))

\* the pair p passes the tests of the merge loop
mergeable(m, merged, p) ==
  /\ p[1] \notin merged /\ p[2] \notin merged
  /\ m.triangles[p[1]].active /\ m.triangles[p[2]].active
  /\ LET edgeId == edgeByKey(m.edges, edgeKey(sharedVerts(m, p)[1], sharedVerts(m, p)[2]))
     IN edgeId # null /\ m.edges[edgeId].active

RECURSIVE mergeLoop(_, _, _)
\* the meshes the merge loop can end with, over all orders of the shuffled
\* pairs: the next pair that is merged is any pair of the list that passes
\* the tests, the pairs before it in the list are skipped
mergeLoop(m, pairs, merged) ==
  LET next == {p \in pairs : mergeable(m, merged, p)}
      sharedEdge(p) == edgeByKey(m.edges, edgeKey(sharedVerts(m, p)[1], sharedVerts(m, p)[2]))
  IN IF next = {} THEN {m}
     ELSE UNION {UNION {mergeLoop(m2, pairs, merged \cup {p[1], p[2]}) :
                          m2 \in {deleteEdgeSingle(m, sharedEdge(p))}} : p \in next}

\* mutant of mergeTrianglesRandomly: the pass stops after its first merge
mergeTrianglesOnePair(m) ==
  IF trianglePairs(m) = {} THEN {m}
  ELSE {deleteEdgeSingle(m, edgeByKey(m.edges, edgeKey(sharedVerts(m, p)[1],
                                                        sharedVerts(m, p)[2]))) :
          p \in trianglePairs(m)}

mergeTrianglesRandomly(m) == mergeLoop(m, trianglePairs(m), {})

\* a vertex created by subdivideFaces
newVertex(newId, x, y, type) ==
  [id |-> newId, q |-> 0, r |-> 0, x |-> x, y |-> y, type |-> type,
   neighbors |-> {}, triangles |-> {}, quads |-> {},
   peers |-> <<newId, newId, newId>>, visible |-> undefined]

\* getOrCreateMidpoint on the accumulator acc = [vertices, mids, newQuads]:
\* mids maps an edge key to the id of its midpoint vertex
getOrCreateMidpoint(acc, vid1, vid2) ==
  LET key == edgeKey(vid1, vid2)
      v1 == acc.vertices[vid1]
      v2 == acc.vertices[vid2]
      newId == Len(acc.vertices) + 1
  IN IF key \in DOMAIN acc.mids THEN acc
     ELSE [acc EXCEPT
             !.vertices = Append(@, newVertex(newId, (v1.x + v2.x) \div 2, (v1.y + v2.y) \div 2,
                                   IF v1.type = "edge" /\ v2.type = "edge"
                                   THEN "edge" ELSE "inner")),
             !.mids = [k \in (DOMAIN acc.mids) \cup {key} |->
                         IF k = key THEN newId ELSE acc.mids[k]]]

RECURSIVE createMidpoints(_, _, _)
\* the midpoints of the sides i, i+1, ... of the face verts, in order
createMidpoints(acc, verts, i) ==
  IF i > Len(verts) THEN acc
  ELSE createMidpoints(getOrCreateMidpoint(acc, verts[i], verts[(i % Len(verts)) + 1]),
                       verts, i + 1)

\* getFaceCenter(vertIds)
getFaceCenter(acc, vertIds) ==
  LET n == Len(vertIds)
      newId == Len(acc.vertices) + 1
  IN [acc EXCEPT !.vertices =
        Append(@, newVertex(newId,
                            SumSeq([i \in 1..n |-> acc.vertices[vertIds[i]].x]) \div n,
                            SumSeq([i \in 1..n |-> acc.vertices[vertIds[i]].y]) \div n,
                            "inner"))]

\* one face of subdivideFaces: its midpoints, its centre, one quad per corner
subdivideFace(acc, verts, firstQuadId) ==
  LET n == Len(verts)
      a1 == createMidpoints(acc, verts, 1)
      a2 == getFaceCenter(a1, verts)
      center == Len(a2.vertices)
      mid(i) == a2.mids[edgeKey(verts[i], verts[(i % n) + 1])]
      prev(i) == IF i = 1 THEN n ELSE i - 1
  IN [a2 EXCEPT !.newQuads = @ \o
        [i \in 1..n |->
           [id |-> firstQuadId + Len(acc.newQuads) + i,
            verts |-> orderPolygonIn(a2.vertices, <<verts[i], mid(i), center, mid(prev(i))>>),
            active |-> TRUE, area |-> noArea]]]

RECURSIVE subdivideAll(_, _, _)
subdivideAll(acc, faces, firstQuadId) ==
  IF faces = <<>> THEN acc
  ELSE CHOOSE result \in {subdivideAll(a, Tail(faces), firstQuadId) :
                            a \in {subdivideFace(acc, Head(faces).verts, firstQuadId)}} : TRUE

\* mutant of subdivideFaces: the faces are left as they are
subdivideFacesNothing(m) == m

\* mutant of subdivideFaces: the subdivided quads stay active
subdivideFacesKeepQuads(m) ==
  LET faces == SelectSeq(m.triangles, LAMBDA t : t.active)
                 \o SelectSeq(m.quads, LAMBDA q : q.active)
      acc == subdivideAll([vertices |-> m.vertices, mids |-> <<>>, newQuads |-> <<>>],
                          faces, Len(m.quads))
  IN rebuildEdgesFromFaces(
       [m EXCEPT
          !.triangles = [t \in DOMAIN m.triangles |-> [m.triangles[t] EXCEPT !.active = FALSE]],
          !.quads = m.quads \o acc.newQuads,
          !.vertices = acc.vertices])

subdivideFaces(m) ==
  LET faces == SelectSeq(m.triangles, LAMBDA t : t.active)
                 \o SelectSeq(m.quads, LAMBDA q : q.active)
      acc == subdivideAll([vertices |-> m.vertices, mids |-> <<>>, newQuads |-> <<>>],
                          faces, Len(m.quads))
      allQuads == [q \in DOMAIN m.quads |-> [m.quads[q] EXCEPT !.active = FALSE]]
                    \o acc.newQuads
  IN rebuildEdgesFromFaces(
       [m EXCEPT
          !.triangles = [t \in DOMAIN m.triangles |-> [m.triangles[t] EXCEPT !.active = FALSE]],
          !.quads = allQuads,
          !.vertices = [v \in DOMAIN acc.vertices |->
                          [acc.vertices[v] EXCEPT !.quads = @ \cup
                             {acc.newQuads[i].id : i \in {j \in DOMAIN acc.newQuads :
                                                           v \in Range(acc.newQuads[j].verts)}}]]])

cleanupInactiveElements(m) ==
  rebuildEdgesFromFaces([m EXCEPT !.triangles = SelectSeq(@, LAMBDA t : t.active)])

findAndMarkBorderVertices(m) ==
  [m EXCEPT !.vertices =
     [v \in DOMAIN m.vertices |->
        IF m.vertices[v].visible = "true"
        THEN [m.vertices[v] EXCEPT
                !.type = IF Cardinality(m.vertices[v].neighbors) < 6 THEN "edge" ELSE "inner"]
        ELSE m.vertices[v]]]

\* the steps of applyGuaranteedQuadrangulation after the merge
finishQuadrangulation(m) ==
  markVisibleVertices(findAndMarkBorderVertices(cleanupInactiveElements(subdivideFaces(m))))

\* the steps of applyGuaranteedQuadrangulation before the merge
prepareQuadrangulation(m) ==
  LET targetRadius == HexRadius \div 2
  IN scaleGridByFactor(
       markBorderVertices(deactivateFacesOutsideRadius(m, targetRadius), targetRadius),
       2)

\* applyGuaranteedQuadrangulation, after its captureState('quadrangulation'):
\* the set of meshes it can end with
applyGuaranteedQuadrangulation(m) ==
  {finishQuadrangulation(m2) : m2 \in mergeTrianglesRandomly(prepareQuadrangulation(m))}

----------------------------------------------------------------------------
\* Relaxation (relaxVertices)

\* the shoelace formula
calculateQuadArea(m, quad) ==
  LET n == Len(quad.verts)
      cross(i) == LET v1 == m.vertices[quad.verts[i]]
                      v2 == m.vertices[quad.verts[(i % n) + 1]]
                  IN v1.x * v2.y - v2.x * v1.y
  IN Abs(SumSeq([i \in 1..n |-> cross(i)])) \div 2

getFaceCentroid(m, face) ==
  LET n == Len(face.verts)
  IN [x |-> SumSeq([i \in 1..n |-> m.vertices[face.verts[i]].x]) \div n,
      y |-> SumSeq([i \in 1..n |-> m.vertices[face.verts[i]].y]) \div n]

refreshAllEdgeMidpoints(m) ==
  withMidpoints(m, {e \in DOMAIN m.edges : m.edges[e].active})

\* v += (centroid - v) * relaxationStrength, relaxationStrength = spacing * 0.0008
relaxStep(from, to) == ((to - from) * spacing * 8) \div 10000

\* mutant of relaxVertices: the vertices of the outer border are adjusted too
relaxVerticesBorderToo(m) ==
  LET qs == [q \in DOMAIN m.quads |->
               IF m.quads[q].active
               THEN [m.quads[q] EXCEPT !.area = calculateQuadArea(m, m.quads[q])]
               ELSE m.quads[q]]
      adjFaces(v) == SelectSeq(qs, LAMBDA q : q.active /\ v \in Range(q.verts))
      weight(face) == IF face.area = noArea \/ face.area = 0 THEN 1 ELSE face.area
      totalWeight(v) == SumSeq([i \in DOMAIN adjFaces(v) |-> weight(adjFaces(v)[i])])
      weightedX(v) == SumSeq([i \in DOMAIN adjFaces(v) |->
                                getFaceCentroid(m, adjFaces(v)[i]).x * weight(adjFaces(v)[i])])
      weightedY(v) == SumSeq([i \in DOMAIN adjFaces(v) |->
                                getFaceCentroid(m, adjFaces(v)[i]).y * weight(adjFaces(v)[i])])
      adjusted(v) == adjFaces(v) # <<>> /\ totalWeight(v) > 0
  IN refreshAllEdgeMidpoints(
       [m EXCEPT
          !.quads = qs,
          !.vertices =
             [v \in DOMAIN m.vertices |->
                IF adjusted(v)
                THEN [m.vertices[v] EXCEPT
                        !.x = @ + relaxStep(@, weightedX(v) \div totalWeight(v)),
                        !.y = @ + relaxStep(@, weightedY(v) \div totalWeight(v))]
                ELSE m.vertices[v]]])

\* relaxVertices(1)
relaxVertices(m) ==
  LET qs == [q \in DOMAIN m.quads |->
               IF m.quads[q].active
               THEN [m.quads[q] EXCEPT !.area = calculateQuadArea(m, m.quads[q])]
               ELSE m.quads[q]]
      adjFaces(v) == SelectSeq(qs, LAMBDA q : q.active /\ v \in Range(q.verts))
      weight(face) == IF face.area = noArea \/ face.area = 0 THEN 1 ELSE face.area
      totalWeight(v) == SumSeq([i \in DOMAIN adjFaces(v) |-> weight(adjFaces(v)[i])])
      weightedX(v) == SumSeq([i \in DOMAIN adjFaces(v) |->
                                getFaceCentroid(m, adjFaces(v)[i]).x * weight(adjFaces(v)[i])])
      weightedY(v) == SumSeq([i \in DOMAIN adjFaces(v) |->
                                getFaceCentroid(m, adjFaces(v)[i]).y * weight(adjFaces(v)[i])])
      adjusted(v) == m.vertices[v].type # "edge" /\ adjFaces(v) # <<>> /\ totalWeight(v) > 0
  IN refreshAllEdgeMidpoints(
       [m EXCEPT
          !.quads = qs,
          !.vertices =
             [v \in DOMAIN m.vertices |->
                IF adjusted(v)
                THEN [m.vertices[v] EXCEPT
                        !.x = @ + relaxStep(@, weightedX(v) \div totalWeight(v)),
                        !.y = @ + relaxStep(@, weightedY(v) \div totalWeight(v))]
                ELSE m.vertices[v]]])

----------------------------------------------------------------------------
\* Undo/redo snapshots of the mesh

captureStateSnapshot(m, label) ==
  [vertices |-> [v \in DOMAIN m.vertices |->
                   [id |-> m.vertices[v].id, q |-> m.vertices[v].q, r |-> m.vertices[v].r,
                    x |-> m.vertices[v].x, y |-> m.vertices[v].y, type |-> m.vertices[v].type,
                    neighbors |-> m.vertices[v].neighbors,
                    triangles |-> m.vertices[v].triangles,
                    quads |-> m.vertices[v].quads, peers |-> m.vertices[v].peers]],
   edges |-> m.edges, triangles |-> m.triangles, quads |-> m.quads, label |-> label]

\* pushSnapshot on a stack whose entry at idx is the live state itself: the
\* entry shows the state that is captured
pushSnapshotAliased(stack, idx, snapshot) ==
  Append([i \in 1..(idx + 1) |-> IF i = idx + 1 THEN snapshot ELSE stack[i]], snapshot)

\* pushSnapshot without the truncation of the entries beyond idx
pushSnapshotKeepTail(stack, idx, snapshot) == Append(stack, snapshot)

\* stack.splice(idx + 1); stack.push(snapshot)
pushSnapshot(stack, idx, snapshot) == Append(SubSeq(stack, 1, idx + 1), snapshot)

----------------------------------------------------------------------------
\* Go rules engine.  A stone map is a function vertex id -> colour, "none"
\* for a vertex that is not a key of the Map.

Other(color) == IF color = "black" THEN "white" ELSE "black"

emptyBoard(vs) == [v \in DOMAIN vs |-> "none"]

RECURSIVE growGroup(_, _, _)
growGroup(stones, color, group) ==
  LET next == group \cup {n \in UNION {vertices[g].neighbors : g \in group} :
                            stones[n] = color}
  IN IF next = group THEN group ELSE growGroup(stones, color, next)

\* mutant of getGroup: the stone alone, without the search
getGroupStoneOnly(stones, vid) ==
  IF stones[vid] = "none" THEN {} ELSE {vid}

getGroup(stones, vid) ==
  IF stones[vid] = "none" THEN {} ELSE growGroup(stones, stones[vid], {vid})

\* getGroupLiberties that counts the group's own stones as liberties
getGroupLibertiesOwnStones(stones, vid) ==
  Cardinality({n \in UNION {vertices[g].neighbors : g \in getGroup(stones, vid)} :
                 vertices[n].visible # "false"})

getGroupLiberties(stones, vid) ==
  Cardinality({n \in UNION {vertices[g].neighbors : g \in getGroup(stones, vid)} :
                 stones[n] = "none" /\ vertices[n].visible # "false"})

RECURSIVE libertySearch(_, _, _, _, _)
\* the loop of getGroupLiberties in common.js: stack is the stack of stones
\* to visit, group the stones found, liberties the liberties found
libertySearch(stones, color, stack, group, liberties) ==
  IF stack = <<>> THEN Cardinality(liberties)
  ELSE LET current == stack[Len(stack)]
           found == {n \in vertices[current].neighbors :
                       stones[n] = color /\ n \notin group}
           free == {n \in vertices[current].neighbors :
                      stones[n] = "none" /\ vertices[n].visible # "false"}
       IN libertySearch(stones, color,
                        SubSeq(stack, 1, Len(stack) - 1) \o SetToSortedSeq(found),
                        group \cup found, liberties \cup free)

\* mutant of getGroupLibertiesCommon: a liberty is counted once for every
\* stone of the group it touches
getGroupLibertiesPerStone(stones, vid) ==
  SumSeq([i \in 1..Cardinality(getGroup(stones, vid)) |->
            Cardinality({n \in vertices[SetToSortedSeq(getGroup(stones, vid))[i]].neighbors :
                           stones[n] = "none" /\ vertices[n].visible # "false"})])

\* getGroupLiberties of common.js: group and liberties in a single pass
getGroupLibertiesCommon(stones, vid) ==
  IF stones[vid] = "none" THEN 0
  ELSE libertySearch(stones, stones[vid], <<vid>>, {vid}, {})

boardSize(stones) == Cardinality({v \in DOMAIN stones : stones[v] # "none"})

boardStatesEqual(state1, state2) ==
  /\ boardSize(state1) = boardSize(state2)
  /\ \A v \in DOMAIN state1 : state1[v] # "none" => state2[v] = state1[v]

\* the captured groups, one per neighbour of vid that holds an opponent stone
\* of a group without liberties (a group is listed once per such neighbour)
capturedGroups(stones, vid, opponent) ==
  LET nbrs == SetToSortedSeq(vertices[vid].neighbors)
      hit == SelectSeq(nbrs, LAMBDA nid : stones[nid] = opponent
                                          /\ getGroupLiberties(stones, nid) = 0)
  IN [i \in DOMAIN hit |-> getGroup(stones, hit[i])]

RECURSIVE concatGroups(_)
\* tempCaptured: the stones of the captured groups, group after group
concatGroups(groups) ==
  IF groups = <<>> THEN <<>>
  ELSE SetToSortedSeq(Head(groups)) \o concatGroups(Tail(groups))

removeStones(stones, tempCaptured) ==
  [v \in DOMAIN stones |-> IF v \in Range(tempCaptured) THEN "none" ELSE stones[v]]

\* mutant of revertMove: the captured stones are not put back
revertMoveNoRestore(stones, vid, tempCaptured, opponent) ==
  [v \in DOMAIN stones |-> IF v = vid THEN "none" ELSE stones[v]]

\* mutant of revertMove: the tentatively placed stone stays on the board
revertMoveKeepStone(stones, vid, tempCaptured, opponent) ==
  [v \in DOMAIN stones |-> IF v \in Range(tempCaptured) THEN opponent ELSE stones[v]]

\* gameStones.delete(vid); for (gvid of tempCaptured) gameStones.set(gvid, opponent)
revertMove(stones, vid, tempCaptured, opponent) ==
  [v \in DOMAIN stones |->
     IF v \in Range(tempCaptured) THEN opponent
     ELSE IF v = vid THEN "none" ELSE stones[v]]

\* for (gvid of tempCaptured) captured++
countCaptures(tempCaptured) == Len(tempCaptured)

captureGameState(g, moveDescription) ==
  [type |-> "game", label |-> moveDescription, stones |-> g.gameStones,
   currentPlayer |-> g.currentPlayer, capturedBlack |-> g.capturedBlack,
   capturedWhite |-> g.capturedWhite, previousBoardState |-> g.previousBoardState]

Game == [gameStones |-> gameStones, currentPlayer |-> currentPlayer,
         capturedBlack |-> capturedBlack, capturedWhite |-> capturedWhite,
         previousBoardState |-> previousBoardState]

\* mutant of koViolation: any earlier position of the game is forbidden
koViolationSuperko(stones, previous) ==
  \E k \in 1..(gameUndoIndex + 1) : boardStatesEqual(stones, gameUndoStack[k].stones)

\* mutant of koViolation: no ko test
koViolationNever(stones, previous) == FALSE

\* the ko test of placeStone
koViolation(stones, previous) ==
  previous # nullBoard /\ boardStatesEqual(stones, previous)

\* placeStone(vid): the outcome and the game state it leaves
placeStone(vid) ==
  LET moveColor == currentPlayer
      opponent == Other(currentPlayer)
      boardBeforeThisMove == gameStones
      placed == [gameStones EXCEPT ![vid] = currentPlayer]
      tempCaptured == concatGroups(capturedGroups(placed, vid, opponent))
      afterCapture == removeStones(placed, tempCaptured)
      ourLiberties == getGroupLiberties(afterCapture, vid)
  IN IF gameStones[vid] # "none" THEN [outcome |-> "occupied", game |-> Game]
     ELSE IF vertices[vid].visible = "false" THEN [outcome |-> "invisible", game |-> Game]
     ELSE IF ourLiberties = 0
     THEN [outcome |-> "suicide",
           game |-> [Game EXCEPT !.gameStones =
                       revertMove(afterCapture, vid, tempCaptured, opponent)]]
     ELSE IF koViolation(afterCapture, previousBoardState)
     THEN [outcome |-> "ko",
           game |-> [Game EXCEPT !.gameStones =
                       revertMove(afterCapture, vid, tempCaptured, opponent)]]
     ELSE [outcome |-> "commit",
           game |-> [gameStones |-> afterCapture,
                     currentPlayer |-> opponent,
                     capturedBlack |-> IF opponent = "black"
                                       THEN capturedBlack + countCaptures(tempCaptured)
                                       ELSE capturedBlack,
                     capturedWhite |-> IF opponent = "black"
                                       THEN capturedWhite
                                       ELSE capturedWhite + countCaptures(tempCaptured),
                     previousBoardState |-> boardBeforeThisMove]]

----------------------------------------------------------------------------
\* Restoring snapshots

restoreGobanSnapshot(snapshot) ==
  [vertices |-> [v \in DOMAIN snapshot.vertices |->
                   [id |-> snapshot.vertices[v].id, q |-> snapshot.vertices[v].q,
                    r |-> snapshot.vertices[v].r, x |-> snapshot.vertices[v].x,
                    y |-> snapshot.vertices[v].y, type |-> snapshot.vertices[v].type,
                    neighbors |-> snapshot.vertices[v].neighbors,
                    triangles |-> snapshot.vertices[v].triangles,
                    quads |-> snapshot.vertices[v].quads,
                    peers |-> snapshot.vertices[v].peers,
                    visible |-> undefined]],
   edges |-> snapshot.edges,
   edgeTris |-> edgeTrisOf(snapshot.triangles, TRUE),
   triangles |-> snapshot.triangles,
   quads |-> snapshot.quads]

\* mutant of restoreGameState: the ko reference is left as it is
restoreGameStateKeepKo(snapshot) ==
  [gameStones |-> snapshot.stones, currentPlayer |-> snapshot.currentPlayer,
   capturedBlack |-> snapshot.capturedBlack, capturedWhite |-> snapshot.capturedWhite,
   previousBoardState |-> previousBoardState]

restoreGameState(snapshot) ==
  [gameStones |-> snapshot.stones, currentPlayer |-> snapshot.currentPlayer,
   capturedBlack |-> snapshot.capturedBlack, capturedWhite |-> snapshot.capturedWhite,
   previousBoardState |-> snapshot.previousBoardState]

SetMesh(m) ==
  /\ vertices' = m.vertices
  /\ edges' = m.edges
  /\ edgeTris' = m.edgeTris
  /\ triangles' = m.triangles
  /\ quads' = m.quads

SetGame(g) ==
  /\ gameStones' = g.gameStones
  /\ currentPlayer' = g.currentPlayer
  /\ capturedBlack' = g.capturedBlack
  /\ capturedWhite' = g.capturedWhite
  /\ previousBoardState' = g.previousBoardState

\* restoreSnapshot(snapshot): routed by the snapshot's type
restoreSnapshot(snapshot) ==
  IF "type" \in DOMAIN snapshot /\ snapshot.type = "game"
  THEN SetGame(restoreGameState(snapshot)) /\ UNCHANGED meshVars
  ELSE SetMesh(restoreGobanSnapshot(snapshot)) /\ UNCHANGED gameVars

getCurrentUndoStack == IF mode = "play" THEN gameUndoStack ELSE gobanUndoStack
getCurrentUndoIndex == IF mode = "play" THEN gameUndoIndex ELSE gobanUndoIndex

setCurrentUndoIndex(val) ==
  IF mode = "play"
  THEN gameUndoIndex' = val /\ UNCHANGED gobanUndoIndex
  ELSE gobanUndoIndex' = val /\ UNCHANGED gameUndoIndex

Op(name, arg, outcome) == [name |-> name, arg |-> arg, outcome |-> outcome]

\* the live state of the current interaction context, for the history variables
Live == IF mode = "play" THEN [ctx |-> "game", state |-> Game]
        ELSE [ctx |-> "mesh", state |-> Mesh]
NoLive == [ctx |-> "none"]

----------------------------------------------------------------------------
\* Handlers

\* number of committed moves explored in one game
MaxMoves == 7

\* mousePressed in play mode on vertex vid: placeStone(vid)
PlaceStone(vid) ==
  /\ mode = "play"
  /\ Len(gameUndoStack) <= MaxMoves
  /\ LET res == placeStone(vid)
     IN /\ SetGame(res.game)
        /\ lastOp' = Op("placeStone", vid, res.outcome)
        /\ preOp' = IF res.outcome = "commit" THEN Live ELSE preOp
        /\ preUndo' = NoLive
        /\ IF res.outcome = "commit"
           THEN /\ gameUndoStack' =
                     pushSnapshot(gameUndoStack, gameUndoIndex,
                                  captureGameState(res.game,
                                    IF currentPlayer = "black" THEN "B" ELSE "W"))
                /\ gameUndoIndex' = gameUndoIndex + 1
           ELSE UNCHANGED gameHistVars
  /\ UNCHANGED <<meshVars, uiVars, relaxVars, gobanHistVars>>

undoStep ==
  IF getCurrentUndoIndex <= 0
  THEN /\ lastOp' = Op("undo", null, "none")
       /\ preUndo' = NoLive
       /\ UNCHANGED <<meshVars, gameVars, gobanUndoIndex, gameUndoIndex, preOp>>
  ELSE /\ lastOp' = Op("undo", null, "done")
       /\ preUndo' = Live
       /\ preOp' = NoLive
       /\ setCurrentUndoIndex(getCurrentUndoIndex - 1)
       /\ restoreSnapshot(getCurrentUndoStack[getCurrentUndoIndex - 1 + 1])

redoStep ==
  IF getCurrentUndoIndex >= Len(getCurrentUndoStack) - 1
  THEN /\ lastOp' = Op("redo", null, "none")
       /\ UNCHANGED <<meshVars, gameVars, gobanUndoIndex, gameUndoIndex, preOp>>
  ELSE /\ lastOp' = Op("redo", null, "done")
       /\ preOp' = NoLive
       /\ setCurrentUndoIndex(getCurrentUndoIndex + 1)
       /\ restoreSnapshot(getCurrentUndoStack[getCurrentUndoIndex + 1 + 1])

UndoStep ==
  /\ undoStep
  /\ UNCHANGED <<uiVars, relaxVars, gobanUndoStack, gameUndoStack>>

RedoStep ==
  /\ redoStep
  /\ preUndo' = NoLive
  /\ UNCHANGED <<uiVars, relaxVars, gobanUndoStack, gameUndoStack>>

----------------------------------------------------------------------------
\* The play context on a loaded goban

\* the record loaded for the games: the quad mesh
\*     1 - 2
\*     |   |
\*     3 - 4 - 5
\*     |   |   |
\*     6 - 7 - 8        and vertex 9, which belongs to no quad
GameRecord ==
  LET at == << <<0, 0>>, <<1, 0>>, <<0, 1>>, <<1, 1>>, <<2, 1>>,
               <<0, 2>>, <<1, 2>>, <<2, 2>>, <<3, 0>> >>
  IN [vertices |-> [i \in 1..9 |->
                      [id |-> i, x |-> spacing * Res * at[i][1],
                       y |-> spacing * Res * at[i][2], type |-> "inner",
                       q |-> 0, r |-> 0, peers |-> <<i, i, i>>]],
      quads |-> << [verts |-> <<1, 2, 4, 3>>], [verts |-> <<3, 4, 7, 6>>],
                   [verts |-> <<4, 5, 8, 7>>] >>]

\* initGameHistory, after the game state was cleared
initGame ==
  [gameStones |-> emptyBoard(restoreGoban(GameRecord).vertices), currentPlayer |-> "black",
   capturedBlack |-> 0, capturedWhite |-> 0, previousBoardState |-> nullBoard]

\* restoreGoban(GameRecord), then togglePlayMode
InitGame ==
  /\ vertices = restoreGoban(GameRecord).vertices
  /\ edges = restoreGoban(GameRecord).edges
  /\ edgeTris = restoreGoban(GameRecord).edgeTris
  /\ triangles = restoreGoban(GameRecord).triangles
  /\ quads = restoreGoban(GameRecord).quads
  /\ gobanUndoStack = <<captureStateSnapshot(restoreGoban(GameRecord), "load")>>
  /\ gobanUndoIndex = 0
  /\ mode = "play"
  /\ hoverVertex = null
  /\ hoverEdge = null
  /\ dragging = null
  /\ dragStateCapture = FALSE
  /\ relaxing = FALSE
  /\ relaxFrame = 0
  /\ relaxMaxFrames = 20
  /\ autoRemoving = FALSE
  /\ gameStones = initGame.gameStones
  /\ currentPlayer = "black"
  /\ capturedBlack = 0
  /\ capturedWhite = 0
  /\ previousBoardState = nullBoard
  /\ gameUndoStack = <<captureGameState(initGame, "start")>>
  /\ gameUndoIndex = 0
  /\ lastOp = Op("togglePlayMode", null, "play")
  /\ preOp = NoLive
  /\ preUndo = NoLive

\* the vertices the players click on: six points of the board and the
\* invisible vertex (pickVertex also returns vertices that are not visible)
ClickVertices == {1, 2, 3, 4, 5, 6, 9}

NextGame ==
  \/ \E vid \in ClickVertices : PlaceStone(vid)
  \/ UndoStep
  \/ RedoStep

SpecGame == InitGame /\ [][NextGame]_vars

----------------------------------------------------------------------------
\* The editor on the triangle grid (startDesignMode)

\* number of snapshots the editing history holds
MaxHistory == 3
\* number of frames of one relaxation (relaxMaxFrames)
RelaxFrames == 3
\* distance in pixels that the mouse drags a vertex from where the drag
\* started: just over one grid spacing, so that a vertex can pass a neighbour
MaxDrag == 52

\* captureState(actionLabel): routed by the mode
captureState(actionLabel) ==
  IF mode = "play"
  THEN /\ gameUndoStack' = pushSnapshot(gameUndoStack, gameUndoIndex,
                                        captureGameState(Game, actionLabel))
       /\ gameUndoIndex' = gameUndoIndex + 1
       /\ UNCHANGED gobanHistVars
  ELSE /\ gobanUndoStack' = pushSnapshot(gobanUndoStack, gobanUndoIndex,
                                         captureStateSnapshot(Mesh, actionLabel))
       /\ gobanUndoIndex' = gobanUndoIndex + 1
       /\ UNCHANGED gameHistVars

\* the history has room for one more snapshot
CanCapture == getCurrentUndoIndex + 2 <= MaxHistory

activeTriangleCount(ts) == Cardinality({t \in DOMAIN ts : ts[t].active})

\* keyPressed with 'v' or 'e'
KeyPressed(key) ==
  /\ mode' = IF key = "v" THEN "move-vertex" ELSE IF key = "e" THEN "delete-edge" ELSE mode
  /\ UNCHANGED <<meshVars, hoverVertex, hoverEdge, dragging, dragStateCapture, relaxVars,
                 gameVars, gobanHistVars, gameHistVars, ghostVars>>

\* the places the mouse is moved to: onto a vertex or onto the midpoint of an edge
HoverTargets ==
  {[kind |-> "vertex", id |-> coordToId(0 - 1, 1)],
   [kind |-> "edge", id |-> edgeByKey(buildGrid.edges, edgeKey(coordToId(0, 0), coordToId(0, 1)))],
   [kind |-> "edge", id |-> edgeByKey(buildGrid.edges, edgeKey(coordToId(0 - 1, 1), coordToId(0 - 1, 2)))]}

\* mouseMoved: updateHover with the mouse on target
MouseMoved(target) ==
  /\ hoverVertex' = IF target.kind = "vertex" /\ target.id \in DOMAIN vertices
                    THEN target.id ELSE null
  /\ hoverEdge' = IF mode = "delete-edge" /\ target.kind = "edge" /\ pickable(Mesh, target.id)
                  THEN target.id ELSE null
  /\ UNCHANGED <<meshVars, mode, dragging, dragStateCapture, relaxVars,
                 gameVars, gobanHistVars, gameHistVars, ghostVars>>

\* mousePressed (on a hoverVertex that an undo took out of the vertex array,
\* v.type throws and the handler ends)
MousePressed ==
  IF mode = "delete-edge" /\ hoverEdge # null
  THEN /\ CanCapture
       /\ captureState("edge-delete")
       /\ \E m2 \in {deleteEdgeMirrored(Mesh, hoverEdge)} :
            /\ SetMesh(m2)
            /\ lastOp' = Op("deleteEdge", hoverEdge, IF m2 = Mesh THEN "none" ELSE "done")
            /\ preOp' = IF m2 = Mesh THEN preOp ELSE Live
       /\ preUndo' = NoLive
       /\ UNCHANGED <<uiVars, relaxVars, gameVars>>
  ELSE IF mode = "play" /\ hoverVertex # null
  THEN PlaceStone(hoverVertex)
  ELSE IF mode = "move-vertex" /\ hoverVertex # null
  THEN /\ dragging' = IF hoverVertex \notin DOMAIN vertices
                         \/ vertices[hoverVertex].type \in {"edge", "center"}
                      THEN dragging ELSE hoverVertex
       /\ UNCHANGED <<meshVars, mode, hoverVertex, hoverEdge, dragStateCapture, relaxVars,
                      gameVars, gobanHistVars, gameHistVars, ghostVars>>
  ELSE UNCHANGED vars

\* where the drag of vertex v started
dragStart(v) ==
  IF dragStateCapture /\ v \in DOMAIN gobanUndoStack[gobanUndoIndex + 1].vertices
  THEN gobanUndoStack[gobanUndoIndex + 1].vertices[v].x
  ELSE vertices[v].x

\* mouseDragged with movedX = dx, movedY = 0 (on a vertex that an undo took
\* out of the vertex array, moveVertexMirrored throws at base.type, after its
\* captureState)
MouseDragged(dx) ==
  /\ dragging # null
  /\ mode # "play"
  /\ dragging \in DOMAIN vertices
       => Abs(vertices[dragging].x + Res * dx - dragStart(dragging)) <= Res * MaxDrag
  /\ IF dragStateCapture
     THEN UNCHANGED <<gobanHistVars, gameHistVars, dragStateCapture, preOp>>
     ELSE /\ CanCapture
          /\ captureState("vertex-move")
          /\ dragStateCapture' = TRUE
          /\ preOp' = Live
  /\ \E m2 \in {IF dragging \in DOMAIN vertices
                 THEN moveVertexMirrored(Mesh, dragging, Res * dx, 0) ELSE Mesh} :
       /\ SetMesh(m2)
       /\ lastOp' = Op("moveVertex", dragging, IF m2 = Mesh THEN "none" ELSE "done")
  /\ preUndo' = NoLive
  /\ UNCHANGED <<mode, hoverVertex, hoverEdge, dragging, relaxVars, gameVars>>

\* mouseReleased
MouseReleased ==
  /\ dragStateCapture' = IF dragging # null THEN FALSE ELSE dragStateCapture
  /\ dragging' = null
  /\ UNCHANGED <<meshVars, mode, hoverVertex, hoverEdge, relaxVars,
                 gameVars, gobanHistVars, gameHistVars, ghostVars>>

\* startRelaxation
StartRelaxation ==
  IF activeTriangleCount(triangles) > 0
  THEN /\ lastOp' = Op("startRelaxation", null, "none")
       /\ preUndo' = NoLive
       /\ UNCHANGED <<meshVars, uiVars, relaxVars, gameVars, gobanHistVars, gameHistVars, preOp>>
  ELSE /\ CanCapture
       /\ captureState("relaxation")
       /\ relaxing' = TRUE
       /\ relaxFrame' = 0
       /\ lastOp' = Op("startRelaxation", null, "done")
       /\ preOp' = Live
       /\ preUndo' = NoLive
       /\ UNCHANGED <<meshVars, uiVars, relaxMaxFrames, autoRemoving, gameVars>>

\* draw: one frame.  No statement of the program sets autoRemoving to true,
\* so that the frame has the relaxation branch only
Draw ==
  /\ relaxing
  /\ ~autoRemoving
  /\ IF relaxFrame + 1 < relaxMaxFrames
     THEN /\ relaxFrame' = relaxFrame + 1
          /\ \E m2 \in {relaxVertices(Mesh)} : SetMesh(m2)
          /\ lastOp' = Op("draw", null, "relax")
          /\ UNCHANGED relaxing
     ELSE /\ relaxing' = FALSE
          /\ relaxFrame' = 0
          /\ lastOp' = Op("draw", null, "end")
          /\ UNCHANGED meshVars
  /\ preUndo' = NoLive
  /\ UNCHANGED <<uiVars, relaxMaxFrames, autoRemoving, gameVars, gobanHistVars,
                 gameHistVars, preOp>>

\* applyGuaranteedQuadrangulation on the grid of buildGrid, evaluated once
gridQuadrangulations == applyGuaranteedQuadrangulation(buildGrid)

\* startAutoRemoveEdges
StartAutoRemoveEdges ==
  IF activeTriangleCount(triangles) = 0
  THEN /\ lastOp' = Op("quadrangulation", null, "none")
       /\ preUndo' = NoLive
       /\ UNCHANGED <<meshVars, uiVars, relaxVars, gameVars, gobanHistVars, gameHistVars, preOp>>
  ELSE /\ CanCapture
       /\ captureState("quadrangulation")
       /\ \E m2 \in IF Mesh = buildGrid THEN gridQuadrangulations
                     ELSE applyGuaranteedQuadrangulation(Mesh) : SetMesh(m2)
       /\ lastOp' = Op("quadrangulation", null, "done")
       /\ preOp' = Live
       /\ preUndo' = NoLive
       /\ UNCHANGED <<uiVars, relaxVars, gameVars>>

\* the editor with mesh m, editing history stack and idx, mode md and the
\* mouse on edge he, before any game was started
EditorState(m, stack, idx, md, he, op, pre) ==
  /\ vertices = m.vertices
  /\ edges = m.edges
  /\ edgeTris = m.edgeTris
  /\ triangles = m.triangles
  /\ quads = m.quads
  /\ gobanUndoStack = stack
  /\ gobanUndoIndex = idx
  /\ mode = md
  /\ hoverVertex = null
  /\ hoverEdge = he
  /\ dragging = null
  /\ dragStateCapture = FALSE
  /\ relaxing = FALSE
  /\ relaxFrame = 0
  /\ relaxMaxFrames = RelaxFrames
  /\ autoRemoving = FALSE
  /\ gameStones = emptyBoard(buildGrid.vertices)
  /\ currentPlayer = "black"
  /\ capturedBlack = 0
  /\ capturedWhite = 0
  /\ previousBoardState = nullBoard
  /\ gameUndoStack = <<>>
  /\ gameUndoIndex = 0 - 1
  /\ lastOp = op
  /\ preOp = pre
  /\ preUndo = NoLive

\* startDesignMode: buildGrid, captureState('initial')
Init ==
  EditorState(buildGrid, <<captureStateSnapshot(buildGrid, "initial")>>, 0, "move-vertex",
              null, Op("startDesignMode", null, "done"), NoLive)

\* the edge between the centre and one of its neighbours
SpokeEdge == edgeByKey(buildGrid.edges, edgeKey(coordToId(0, 0), coordToId(0, 1)))

\* startDesignMode, then key 'e', the mouse moved onto SpokeEdge and pressed:
\* the three spokes of its orbit are deleted
InitEdited ==
  EditorState(deleteEdgeMirrored(buildGrid, SpokeEdge),
              <<captureStateSnapshot(buildGrid, "initial"),
                captureStateSnapshot(buildGrid, "edge-delete")>>, 1, "delete-edge",
              SpokeEdge, Op("deleteEdge", SpokeEdge, "done"),
              [ctx |-> "mesh", state |-> buildGrid])

\* movedX of one mouseDragged event, in pixels
DragDeltas == {52}

\* editing with the mouse and the keyboard
Next ==
  \/ \E key \in {"v", "e"} : KeyPressed(key)
  \/ \E target \in HoverTargets : MouseMoved(target)
  \/ MousePressed
  \/ \E dx \in DragDeltas : MouseDragged(dx)
  \/ MouseReleased
  \/ UndoStep
  \/ RedoStep

Spec == Init /\ [][Next]_vars

\* the buttons of the editor: quadrangulation, relaxation, undo and redo,
\* and the frames drawn in between
NextQuad ==
  \/ StartAutoRemoveEdges
  \/ StartRelaxation
  \/ Draw
  \/ UndoStep
  \/ RedoStep

InitQuad == Init \/ InitEdited

SpecQuad == InitQuad /\ [][NextQuad]_vars

----------------------------------------------------------------------------
\* Vocabulary of the claims about the rules engine: chains and liberties,
\* stated on the neighbour relation and independent of getGroup

RECURSIVE ChainFrom(_, _, _)
ChainFrom(board, color, S) ==
  LET T == S \cup {n \in DOMAIN board :
                     board[n] = color /\ \E g \in S : n \in vertices[g].neighbors}
  IN IF T = S THEN S ELSE ChainFrom(board, color, T)

ChainOf(board, v) == ChainFrom(board, board[v], {v})

LibertiesOf(board, v) ==
  {n \in DOMAIN board :
     /\ board[n] = "none"
     /\ vertices[n].visible # "false"
     /\ \E g \in ChainOf(board, v) : n \in vertices[g].neighbors}

\* the opponent stones that a stone of colour color placed on vid captures
DeadAround(board, vid, color) ==
  LET placed == [board EXCEPT ![vid] = color]
  IN {v \in DOMAIN board :
        /\ placed[v] = Other(color)
        /\ LibertiesOf(placed, v) = {}
        /\ ChainOf(placed, v) \cap vertices[vid].neighbors # {}}

AfterMove(board, vid, color) ==
  [v \in DOMAIN board |->
     IF v \in DeadAround(board, vid, color) THEN "none"
     ELSE IF v = vid THEN color ELSE board[v]]

IsPlaceStone(outcomes) == lastOp'.name = "placeStone" /\ lastOp'.outcome \in outcomes
Rejections == {"occupied", "invisible", "suicide", "ko"}
Outcomes == Rejections \cup {"commit"}

\* the stones of board a that are no longer on board b
Removed(a, b) == {v \in DOMAIN a : a[v] # "none" /\ b[v] = "none"}

----------------------------------------------------------------------------
\* Claims

\* C1: every placeStone call either fully commits (the stone is placed with
\* the mover's colour, only opponent stones leave the board, the pre-move
\* board becomes the ko reference, the player switches, exactly one history
\* entry is appended) or leaves the stone map, the player, both capture
\* counts, the ko reference and the game history stack and index unchanged;
\* a call on an occupied or invisible vertex is always of the second kind.
C1_PlaceStoneAtomic ==
  [][IsPlaceStone(Outcomes) =>
       LET vid == lastOp'.arg
       IN /\ \/ /\ lastOp'.outcome \in Rejections
                /\ UNCHANGED <<gameVars, gameHistVars>>
             \/ /\ lastOp'.outcome = "commit"
                /\ gameStones[vid] = "none"
                /\ gameStones'[vid] = currentPlayer
                /\ \A v \in DOMAIN gameStones \ {vid} :
                      \/ gameStones'[v] = gameStones[v]
                      \/ gameStones[v] = Other(currentPlayer) /\ gameStones'[v] = "none"
                /\ previousBoardState' = gameStones
                /\ currentPlayer' = Other(currentPlayer)
                /\ gameUndoIndex' = gameUndoIndex + 1
                /\ Len(gameUndoStack') = gameUndoIndex + 2
                /\ SubSeq(gameUndoStack', 1, gameUndoIndex + 1)
                     = SubSeq(gameUndoStack, 1, gameUndoIndex + 1)
                /\ restoreGameState(gameUndoStack'[gameUndoIndex' + 1]) = Game'
          /\ (gameStones[vid] # "none" \/ vertices[vid].visible = "false")
               => lastOp'.outcome \in {"occupied", "invisible"}
     ]_vars

\* C1 witness: a call was rejected as ko, which had to put the captured
\* stone back
C1_Witness == lastOp.name = "placeStone" /\ lastOp.outcome = "ko"

\* the placed stone on vid would have no liberty and would capture nothing
SuicideCase(vid) ==
  /\ gameStones[vid] = "none"
  /\ vertices[vid].visible # "false"
  /\ LET placed == [gameStones EXCEPT ![vid] = currentPlayer]
     IN /\ \A v \in DOMAIN placed :
             placed[v] = Other(currentPlayer) => LibertiesOf(placed, v) # {}
        /\ LibertiesOf(placed, vid) = {}

\* C2: placeStone on an empty visible vertex whose stone would be left
\* without liberties while no opponent group is left without liberties is
\* rejected as suicide, and the stone map after the call is the one before.
C2_SuicideRejected ==
  [][(IsPlaceStone(Outcomes) /\ SuicideCase(lastOp'.arg)) =>
       (lastOp'.outcome = "suicide" /\ gameStones' = gameStones)]_vars

\* C2 witness: a call was rejected as suicide
C2_Witness == lastOp.name = "placeStone" /\ lastOp.outcome = "suicide"

\* between the history entries pre and post, white played V and captured
\* exactly one black stone, the one on W
WhiteTookOne(pre, post, V, W) ==
  /\ pre.currentPlayer = "white"
  /\ post.currentPlayer = "black"
  /\ pre.stones[V] = "none"
  /\ post.stones[V] = "white"
  /\ pre.stones[W] = "black"
  /\ Removed(pre.stones, post.stones) = {W}

\* white has just captured one stone on W by playing V, and black's
\* recapture on W would recreate the board before white's move
KoShape(V, W) ==
  /\ gameUndoIndex >= 1
  /\ WhiteTookOne(gameUndoStack[gameUndoIndex], gameUndoStack[gameUndoIndex + 1], V, W)
  /\ gameStones = gameUndoStack[gameUndoIndex + 1].stones
  /\ currentPlayer = "black"
  /\ AfterMove(gameStones, W, "black") = gameUndoStack[gameUndoIndex].stones

\* white captured one stone on W by playing V at history entry c, moves were
\* committed since, none of them on W, and black playing W would capture
\* the stone on V
KoShapeEarlier(V, W) ==
  /\ currentPlayer = "black"
  /\ gameStones[W] = "none"
  /\ gameStones[V] = "white"
  /\ V \in DeadAround(gameStones, W, "black")
  /\ \E c \in 1..(gameUndoIndex - 1) :
       /\ WhiteTookOne(gameUndoStack[c], gameUndoStack[c + 1], V, W)
       /\ \A j \in (c + 1)..(gameUndoIndex + 1) : gameUndoStack[j].stones[W] = "none"

\* C3: after white captured exactly one black stone on W by playing V,
\* black's immediately following placeStone(W), which would recreate the
\* board before white's move, is rejected and changes nothing; once other
\* moves have been committed in between, the recapture on W is accepted.
C3_KoCycle ==
  [][IsPlaceStone(Outcomes) =>
       /\ (\E V \in DOMAIN gameStones : KoShape(V, lastOp'.arg))
            => (lastOp'.outcome = "ko" /\ UNCHANGED <<gameVars, gameHistVars>>)
       /\ \A V \in DOMAIN gameStones :
            KoShapeEarlier(V, lastOp'.arg)
              => /\ lastOp'.outcome = "commit"
                 /\ gameStones'[lastOp'.arg] = "black"
                 /\ gameStones'[V] = "none"
     ]_vars

\* C3 witness: black has recaptured on W, three commits after white's
\* capture of the single stone on W
C3_Witness ==
  /\ lastOp.name = "placeStone" /\ lastOp.outcome = "commit"
  /\ gameUndoIndex >= 4
  /\ gameUndoIndex + 1 = Len(gameUndoStack)
  /\ \E V \in DOMAIN gameStones :
       /\ WhiteTookOne(gameUndoStack[gameUndoIndex - 3], gameUndoStack[gameUndoIndex - 2],
                       V, lastOp.arg)
       /\ gameUndoStack[gameUndoIndex - 1].stones[lastOp.arg] = "none"
       /\ gameUndoStack[gameUndoIndex].stones[lastOp.arg] = "none"
       /\ gameUndoStack[gameUndoIndex].stones[V] = "white"
       /\ gameStones[lastOp.arg] = "black"
       /\ gameStones[V] = "none"

\* C4 (as claimed): when placeStone commits, the capture counter of the
\* opponent's colour grows by exactly the number of stones the move removed
\* from the board, and the other counter is unchanged.
C4_CaptureCount ==
  [][IsPlaceStone({"commit"}) =>
       LET removed == Cardinality(Removed(gameStones, gameStones'))
       IN IF currentPlayer = "white"
          THEN capturedBlack' = capturedBlack + removed /\ capturedWhite' = capturedWhite
          ELSE capturedWhite' = capturedWhite + removed /\ capturedBlack' = capturedBlack
     ]_vars

\* C5: when placeStone(vid) commits, the stones removed from the board are
\* exactly the members of the opponent groups adjacent to vid that have no
\* liberty once the new stone is on the board; every other stone stays.
C5_CapturedExactly ==
  [][IsPlaceStone({"commit"}) =>
       gameStones' = AfterMove(gameStones, lastOp'.arg, currentPlayer)]_vars

\* C5 witness: a committed move removed a group of two or more stones
C5_Witness ==
  /\ lastOp.name = "placeStone" /\ lastOp.outcome = "commit"
  /\ gameUndoIndex >= 1
  /\ gameUndoIndex + 1 = Len(gameUndoStack)
  /\ Cardinality(Removed(gameUndoStack[gameUndoIndex].stones, gameStones)) >= 2

\* C8: in play mode, undo() after a committed move restores the stone map,
\* the current player, both capture counts and the ko reference to their
\* values immediately before that move.
C8_UndoRestoresGame ==
  [][(mode = "play" /\ lastOp'.name = "undo" /\ lastOp'.outcome = "done"
      /\ preOp.ctx = "game") => Game' = preOp.state]_vars

\* C8 witness: the undone move had captured a stone and had changed the ko
\* reference
C8_Witness ==
  /\ mode = "play"
  /\ lastOp.name = "undo" /\ lastOp.outcome = "done"
  /\ gameUndoStack[gameUndoIndex + 2].capturedBlack > capturedBlack
  /\ gameUndoStack[gameUndoIndex + 2].previousBoardState # previousBoardState

\* the mesh without the edge-to-triangles index, which is derived from the
\* triangles
meshCore(m) ==
  [vertices |-> m.vertices, edges |-> m.edges, triangles |-> m.triangles, quads |-> m.quads]

\* C6 (as claimed): in the mesh-edit context, undo() after mesh-mutating
\* operations restores the vertices (positions, kinds, visibility, neighbour
\* sets), the edges, the triangles and the quads to the state they had
\* immediately before the most recent mutating operation.
C6_UndoRestoresMesh ==
  [][(mode # "play" /\ lastOp'.name = "undo" /\ lastOp'.outcome = "done"
      /\ preOp.ctx = "mesh") => meshCore(Mesh') = meshCore(preOp.state)]_vars

\* C7 (as claimed): undo() immediately followed by redo() leaves the live
\* state (the mesh in the edit context, the game in the play context) as it
\* was before the undo().
C7_UndoRedo ==
  [][(lastOp.name = "undo" /\ lastOp.outcome = "done"
      /\ lastOp'.name = "redo" /\ lastOp'.outcome = "done")
     => /\ preUndo.ctx = "mesh" => meshCore(Mesh') = meshCore(preUndo.state)
        /\ preUndo.ctx = "game" => Game' = preUndo.state]_vars

\* C9: automatic quadrangulation finishes with a mesh without active
\* triangles or with the mesh it started from: the tick-driven run never
\* runs (autoRemoving is never true), and when applyGuaranteedQuadrangulation
\* returns no triangle is active or the mesh is the one before the call.
C9_QuadrangulationEnds ==
  /\ [](~autoRemoving)
  /\ [][(lastOp'.name = "quadrangulation" /\ lastOp'.outcome = "done")
        => (activeTriangleCount(triangles') = 0 \/ Mesh' = Mesh)]_vars

\* C9 witness: a quadrangulation has ended in which the merge left
\* triangles unmerged (the number of quads is not a multiple of four)
C9_Witness ==
  /\ lastOp.name = "quadrangulation" /\ lastOp.outcome = "done"
  /\ activeTriangleCount(triangles) = 0
  /\ Cardinality({q \in DOMAIN quads : quads[q].active}) % 4 # 0

\* C10 (as claimed): deleteEdgeMirrored on an edge that is already deleted
\* changes nothing: neither the mesh nor the editing history.
C10_DeleteEdgeIdempotent ==
  [][(lastOp'.name = "deleteEdge" /\ lastOp'.arg \in DOMAIN edges
      /\ ~edges[lastOp'.arg].active)
     => UNCHANGED <<meshVars, gobanHistVars, gameVars, gameHistVars>>]_vars

\* the mutation named by op is one the program rejects in the current mesh:
\* a move of an outer-border or centre vertex, or the deletion of an edge that
\* is inactive or not shared by exactly two active triangles
RejectedMutation(op) ==
  \/ /\ op.name = "moveVertex"
     /\ op.arg \in DOMAIN vertices
     /\ vertices[op.arg].type \in {"edge", "center"}
  \/ /\ op.name = "deleteEdge"
     /\ op.arg \in DOMAIN edges
     /\ \/ ~edges[op.arg].active
        \/ Len(activeTrisOf(Mesh, edgeKey(edges[op.arg].a, edges[op.arg].b))) # 2

\* C11 (as claimed): a rejected mesh mutation changes nothing: the vertices,
\* edges, triangles and quads and the editing history (stack and index) are
\* the same after the call as before it.
C11_RejectedMutationNoChange ==
  [][RejectedMutation(lastOp') => UNCHANGED <<meshVars, gobanHistVars>>]_vars

\* the position of vertex v of the mesh, relative to the board centre
posOf(v) == [x |-> vertices[v].x, y |-> vertices[v].y]

\* the vertices whose orbit has three distinct members
SizeThreeOrbit(v) == Cardinality(Range(vertices[v].peers)) = 3

\* C12: on the grid edited by moveVertexMirrored, the two orbit peers of
\* every vertex with a size-3 orbit sit at the 120-degree and the 240-degree
\* rotation of the vertex's own position about the board centre.
\* (Positions are exact lattice coordinates here; the rounding of the
\* floating-point sines and cosines of rotateVec is outside the model.)
C12_OrbitRotations ==
  \A v \in DOMAIN vertices :
    SizeThreeOrbit(v) =>
      /\ posOf(vertices[v].peers[2]) = rotateVec(posOf(v).x, posOf(v).y, 120)
      /\ posOf(vertices[v].peers[3]) = rotateVec(posOf(v).x, posOf(v).y, 240)

\* C12 witness: two drags have been applied and a vertex with a size-3 orbit
\* is away from its grid position
C12_Witness ==
  /\ lastOp.name = "moveVertex" /\ lastOp.outcome = "done"
  /\ gobanUndoIndex >= 2
  /\ \E v \in DOMAIN vertices :
       /\ SizeThreeOrbit(v)
       /\ v \in DOMAIN buildGrid.vertices
       /\ posOf(v) # [x |-> buildGrid.vertices[v].x, y |-> buildGrid.vertices[v].y]

\* a and b list each other as neighbours
MutualNeighbours(a, b) ==
  /\ a \in DOMAIN vertices /\ b \in DOMAIN vertices
  /\ b \in vertices[a].neighbors /\ a \in vertices[b].neighbors

\* C13 (as claimed): the three vertices of every active triangle are
\* pairwise neighbours, and every two boundary-consecutive vertices of every
\* active quad are neighbours of each other.
C13_FacesAreNeighbours ==
  /\ \A t \in DOMAIN triangles :
       triangles[t].active =>
         \A i, j \in 1..3 :
           i < j => MutualNeighbours(triangles[t].verts[i], triangles[t].verts[j])
  /\ \A q \in DOMAIN quads :
       quads[q].active =>
         \A i \in 1..4 :
           MutualNeighbours(quads[q].verts[i], quads[q].verts[(i % 4) + 1])

----------------------------------------------------------------------------
\* subdivideFaces on its own: the meshes that applyGuaranteedQuadrangulation
\* prepares (of the grid and of the edited grid), merged edge by edge as
\* mergeTrianglesRandomly does, and then subdivided

\* number of active faces up to which a mesh is subdivided
MaxFaces == 12

activeQuadCount(qs) == Cardinality({q \in DOMAIN qs : qs[q].active})

\* one merge of mergeTrianglesRandomly: deleteEdgeSingle on an active edge
\* between two active triangles
MergeEdge(e) ==
  /\ pickable(Mesh, e)
  /\ SetMesh(deleteEdgeSingle(Mesh, e))
  /\ lastOp' = Op("deleteEdgeSingle", e, "done")
  /\ UNCHANGED <<uiVars, relaxVars, gameVars, gobanHistVars, gameHistVars, preOp, preUndo>>

\* subdivideFaces
SubdivideFaces ==
  /\ activeTriangleCount(triangles) + activeQuadCount(quads) <= MaxFaces
  /\ \E m2 \in {subdivideFaces(Mesh)} : SetMesh(m2)
  /\ lastOp' = Op("subdivideFaces", null, "done")
  /\ UNCHANGED <<uiVars, relaxVars, gameVars, gobanHistVars, gameHistVars, preOp, preUndo>>

\* an edge between an inner vertex and a vertex of the outer ring
RingEdge == edgeByKey(buildGrid.edges, edgeKey(coordToId(-1, 1), coordToId(-1, 2)))

InitSubdivide ==
  \E m \in {prepareQuadrangulation(buildGrid),
            prepareQuadrangulation(deleteEdgeMirrored(buildGrid, SpokeEdge)),
            prepareQuadrangulation(deleteEdgeMirrored(buildGrid, RingEdge))} :
    EditorState(m, <<captureStateSnapshot(buildGrid, "initial")>>, 0, "move-vertex",
                null, Op("prepareQuadrangulation", null, "done"), NoLive)

NextSubdivide ==
  \/ \E e \in DOMAIN edges : MergeEdge(e)
  \/ SubdivideFaces

SpecSubdivide == InitSubdivide /\ [][NextSubdivide]_vars

\* C14: subdivideFaces applied to a mesh with T active triangles and Q
\* active quads leaves exactly 3T + 4Q active quads and no active triangle,
\* and every face that was active before the call is inactive after it.
C14_SubdivideCounts ==
  [][lastOp'.name = "subdivideFaces" =>
       /\ activeQuadCount(quads') = 3 * activeTriangleCount(triangles)
                                      + 4 * activeQuadCount(quads)
       /\ activeTriangleCount(triangles') = 0
       /\ \A t \in DOMAIN triangles :
            triangles[t].active => (t \in DOMAIN triangles' /\ ~triangles'[t].active)
       /\ \A q \in DOMAIN quads :
            quads[q].active => (q \in DOMAIN quads' /\ ~quads'[q].active)]_vars

\* C14 witness: a mesh with four active triangles and one active quad has
\* been subdivided into 3 * 4 + 4 * 1 quads; the triangles and the quad are
\* still stored, inactive
C14_Witness ==
  /\ lastOp.name = "subdivideFaces"
  /\ activeQuadCount(quads) = 16
  /\ activeTriangleCount(triangles) = 0
  /\ \E q \in DOMAIN quads : ~quads[q].active
  /\ Cardinality({t \in DOMAIN triangles : Range(triangles[t].verts) \subseteq
                     {v \in DOMAIN vertices : vertexDist(vertices[v]) <= HexRadius \div 2
                                              /\ v <= Len(buildGrid.vertices)}}) = 6

\* C15: one relaxVertices iteration leaves the position of every vertex of
\* the outer border (type 'edge') unchanged.
C15_RelaxKeepsBorder ==
  [][(lastOp'.name = "draw" /\ lastOp'.outcome = "relax")
     => \A v \in DOMAIN vertices :
          vertices[v].type = "edge"
            => /\ v \in DOMAIN vertices'
               /\ vertices'[v].x = vertices[v].x
               /\ vertices'[v].y = vertices[v].y]_vars

\* C15 witness: a relaxation frame has moved an inner vertex of a mesh in
\* which a vertex of the outer border belongs to an active quad
C15_Witness ==
  /\ lastOp.name = "draw" /\ lastOp.outcome = "relax"
  /\ gobanUndoIndex >= 0
  /\ \E v \in DOMAIN vertices :
       /\ v \in DOMAIN gobanUndoStack[gobanUndoIndex + 1].vertices
       /\ vertices[v].type # "edge"
       /\ vertices[v].x # gobanUndoStack[gobanUndoIndex + 1].vertices[v].x
  /\ \E v \in DOMAIN vertices :
       /\ vertices[v].type = "edge"
       /\ \E q \in DOMAIN quads : quads[q].active /\ v \in Range(quads[q].verts)

----------------------------------------------------------------------------
\* Saving and loading the board (saveGoban, loadGoban, restoreGoban).  A
\* file is a record whose field has names the properties that the JSON object
\* holds.

\* saveGoban: the object written to the file
saveGoban(m) ==
  LET active == SetToSortedSeq({q \in DOMAIN m.quads : m.quads[q].active})
  IN [has |-> {"version", "hexRadius", "spacing", "vertices", "quads"},
      version |-> 1, hexRadius |-> HexRadius, spacing |-> spacing,
      vertices |-> [i \in DOMAIN m.vertices |->
                      [id |-> m.vertices[i].id, x |-> m.vertices[i].x, y |-> m.vertices[i].y,
                       type |-> m.vertices[i].type, q |-> m.vertices[i].q,
                       r |-> m.vertices[i].r, peers |-> m.vertices[i].peers]],
      quads |-> [i \in 1..Len(active) |-> [verts |-> m.quads[active[i]].verts]]]

\* the mesh after the "Reset structures" statements of restoreGoban
emptyMesh ==
  [vertices |-> <<>>, edges |-> <<>>, edgeTris |-> <<>>, triangles |-> <<>>, quads |-> <<>>]

\* the mesh in which rebuildEdgesFromFaces throws its TypeError: the sides
\* before the first side that names a vertex that does not exist have been
\* processed, and of that side the statement vertices[v1].neighbors.add(v2)
\* when v1 exists
rebuildEdgesThrown(m) ==
  LET all == quadSidesFrom(m.quads, 1, Len(m.quads))
      vs == m.vertices
      bad(j) == all[j][1] \notin DOMAIN vs \/ all[j][2] \notin DOMAIN vs
      k == CHOOSE j \in DOMAIN all : bad(j) /\ \A i \in 1..(j - 1) : ~bad(i)
      sides == SubSeq(all, 1, k - 1)
      first(j) == \A i \in 1..(j - 1) :
                    edgeKey(sides[i][1], sides[i][2]) # edgeKey(sides[j][1], sides[j][2])
      idx == SetToSortedSeq({j \in DOMAIN sides : first(j)})
  IN [m EXCEPT
        !.edges = [e \in 1..Len(idx) |->
                     LET v1 == sides[idx[e]][1]
                         v2 == sides[idx[e]][2]
                     IN [id |-> e, a |-> v1, b |-> v2,
                         mid |-> [x |-> (vs[v1].x + vs[v2].x) \div 2,
                                  y |-> (vs[v1].y + vs[v2].y) \div 2],
                         active |-> TRUE]],
        !.edgeTris = <<>>,
        !.vertices = [v \in DOMAIN vs |->
                        [vs[v] EXCEPT !.neighbors =
                           {sides[j][2] : j \in {i \in DOMAIN sides : sides[i][1] = v}} \cup
                           {sides[j][1] : j \in {i \in DOMAIN sides : sides[i][2] = v}} \cup
                           (IF all[k][1] = v THEN {all[k][2]} ELSE {})]]]

\* some quad of the file names a vertex that the file does not hold
namesMissingVertex(data) ==
  \E i \in DOMAIN data.quads :
    \E j \in DOMAIN data.quads[i].verts : data.quads[i].verts[j] \notin DOMAIN data.vertices

\* the body of the try block of loadGoban's handleFile on the object data:
\* the mesh it leaves and whether it ran to its end (loaded) or threw
loadGoban(data) ==
  IF "vertices" \notin data.has
  THEN [mesh |-> emptyMesh, loaded |-> FALSE]
  ELSE IF "quads" \notin data.has
  THEN [mesh |-> restoreGoban([vertices |-> data.vertices, quads |-> <<>>]), loaded |-> TRUE]
  ELSE IF namesMissingVertex(data)
  THEN [mesh |-> rebuildEdgesThrown(
                   [restoreGoban([vertices |-> data.vertices, quads |-> <<>>]) EXCEPT
                      !.vertices = [v \in DOMAIN @ |-> [@[v] EXCEPT !.visible = "true"]],
                      !.quads = [i \in DOMAIN data.quads |->
                                   [id |-> i, verts |-> data.quads[i].verts,
                                    active |-> TRUE, area |-> noArea]]]),
        loaded |-> FALSE]
  ELSE [mesh |-> restoreGoban(data), loaded |-> TRUE]

\* the files that are loaded: the board as saved just now, the saved board
\* record of another session, and files with a field missing or with a quad
\* that names a vertex that does not exist (made from a board all of whose
\* quads name vertices that exist, which keeps the number of quads bounded)
FileKinds == {"saved", "record", "noVertices", "noQuads", "badQuad"}

fileOf(kind, m) ==
  LET saved == saveGoban(m)
  IN IF kind = "saved" THEN saved
     ELSE IF kind = "record"
     THEN [has |-> {"vertices", "quads"},
           vertices |-> GameRecord.vertices, quads |-> GameRecord.quads]
     ELSE IF kind = "noVertices" THEN [saved EXCEPT !.has = @ \ {"vertices"}]
     ELSE IF kind = "noQuads" THEN [saved EXCEPT !.has = @ \ {"quads"}]
     ELSE [saved EXCEPT !.quads = Append(@, [verts |-> <<1, 2, Len(m.vertices) + 1, 3>>])]

\* the file is one of those that the loader has to reject
Malformed(kind) == kind \in {"noVertices", "noQuads", "badQuad"}

\* the number of loads that the editing history holds up to its index
MaxLoads == 1

loadsInHistory ==
  Cardinality({i \in 1..(gobanUndoIndex + 1) : gobanUndoStack[i].label = "load"})

\* loadGoban with the file of the given kind picked: restoreGoban in the try
\* block, whose last statement is captureState('load')
LoadGoban(kind) ==
  /\ mode # "play"
  /\ loadsInHistory < MaxLoads
  /\ kind = "badQuad" => ~namesMissingVertex(saveGoban(Mesh))
  /\ \E res \in {loadGoban(fileOf(kind, Mesh))} :
       /\ SetMesh(res.mesh)
       /\ IF res.loaded
          THEN /\ gobanUndoStack' = pushSnapshot(gobanUndoStack, gobanUndoIndex,
                                                 captureStateSnapshot(res.mesh, "load"))
               /\ gobanUndoIndex' = gobanUndoIndex + 1
          ELSE UNCHANGED gobanHistVars
       /\ lastOp' = Op("load", IF res.loaded THEN 1 ELSE 0, kind)
  /\ preOp' = Live
  /\ preUndo' = NoLive
  /\ UNCHANGED <<uiVars, relaxVars, gameVars, gameHistVars>>

\* the board quadrangulated by hand after a vertex was dragged past its
\* neighbour: the inner vertex at (-1, 1) dragged 52 pixels to the right, then
\* four mirrored deletions that merge all triangles into quads
handEdges ==
  <<RingEdge,
    edgeByKey(buildGrid.edges, edgeKey(coordToId(0 - 2, 0), coordToId(0 - 1, 0))),
    edgeByKey(buildGrid.edges, edgeKey(coordToId(0 - 2, 1), coordToId(0 - 1, 1))),
    edgeByKey(buildGrid.edges, edgeKey(coordToId(0 - 1, 0), coordToId(0, 0)))>>

RECURSIVE handMesh(_)
handMesh(k) ==
  IF k = 0 THEN moveVertexMirrored(buildGrid, coordToId(0 - 1, 1), Res * MaxDrag, 0)
  ELSE deleteEdgeMirrored(handMesh(k - 1), handEdges[k])

InitFolded ==
  EditorState(handMesh(4),
              <<captureStateSnapshot(buildGrid, "initial"),
                captureStateSnapshot(buildGrid, "vertex-move"),
                captureStateSnapshot(handMesh(0), "edge-delete"),
                captureStateSnapshot(handMesh(1), "edge-delete"),
                captureStateSnapshot(handMesh(2), "edge-delete"),
                captureStateSnapshot(handMesh(3), "edge-delete")>>, 5, "delete-edge",
              handEdges[4], Op("deleteEdge", handEdges[4], "done"),
              [ctx |-> "mesh", state |-> handMesh(3)])

InitLoad == InitQuad \/ InitFolded

NextLoad ==
  \/ StartAutoRemoveEdges
  \/ \E kind \in FileKinds : LoadGoban(kind)

SpecLoad == InitLoad /\ [][NextLoad]_vars

\* C16 (as claimed): loading a record with missing or inconsistent fields is
\* rejected and leaves the vertices, edges, triangles and quads as they were
\* before the load.
C16_MalformedLoadRejected ==
  [][(lastOp'.name = "load" /\ Malformed(lastOp'.outcome))
     => (lastOp'.arg = 0 /\ UNCHANGED meshVars)]_vars


\* the active quads as a set of vertex-id lists
activeQuadLists(qs) == {qs[q].verts : q \in {i \in DOMAIN qs : qs[i].active}}

\* C17 (as claimed): for a mesh without active triangles, saving it and loading the saved
\* file yields the same vertex ids, positions and kinds, the same set of
\* active quads as vertex-id lists and the same neighbours of every vertex.
C17_SaveLoadRoundTrip ==
  [][(lastOp'.name = "load" /\ lastOp'.outcome = "saved" /\ activeTriangleCount(triangles) = 0)
     => /\ DOMAIN vertices' = DOMAIN vertices
        /\ \A v \in DOMAIN vertices :
             /\ vertices'[v].id = vertices[v].id
             /\ vertices'[v].x = vertices[v].x
             /\ vertices'[v].y = vertices[v].y
             /\ vertices'[v].type = vertices[v].type
             /\ vertices'[v].neighbors = vertices[v].neighbors
        /\ activeQuadLists(quads') = activeQuadLists(quads)
        /\ activeTriangleCount(triangles') = 0]_vars

----------------------------------------------------------------------------
\* History after a capture

\* redoStep returns at its guard: no redo available
NoRedoAvailable(stack, idx) == idx >= Len(stack) - 1

\* the step appended snapshot to the entries of stack up to idx and moved
\* the index to it
CapturedOnto(stack, idx, stack2, idx2) ==
  /\ Len(stack2) = idx + 2
  /\ SubSeq(stack2, 1, idx + 1) = SubSeq(stack, 1, idx + 1)
  /\ idx2 = Len(stack2) - 1
  /\ NoRedoAvailable(stack2, idx2)

\* C18: a capture of a new snapshot (mesh edit or committed move) discards
\* every history entry beyond the current index; afterwards the index is the
\* stack length minus one, and a redo in that situation changes nothing.
C18_CaptureTruncatesRedoTail ==
  [][/\ gobanUndoStack' # gobanUndoStack
          => CapturedOnto(gobanUndoStack, gobanUndoIndex, gobanUndoStack', gobanUndoIndex')
     /\ gameUndoStack' # gameUndoStack
          => CapturedOnto(gameUndoStack, gameUndoIndex, gameUndoStack', gameUndoIndex')
     /\ (lastOp' # lastOp /\ lastOp'.name = "redo"
         /\ getCurrentUndoIndex = Len(getCurrentUndoStack) - 1)
          => (lastOp'.outcome = "none"
              /\ UNCHANGED <<meshVars, gameVars, gobanHistVars, gameHistVars>>)]_vars

\* two edits, one undo, then a vertex move: its snapshot (the grid that the
\* undo restored) replaced the entry beyond the index
C18_Witness ==
  /\ Len(gobanUndoStack) = 3
  /\ gobanUndoIndex = 2
  /\ gobanUndoStack[2].label = "edge-delete"
  /\ gobanUndoStack[3] = captureStateSnapshot(buildGrid, "vertex-move")
  /\ lastOp.name = "moveVertex"
  /\ lastOp.outcome = "done"

----------------------------------------------------------------------------
\* Scoring (computeTrompTaylorScore of common.js).  deadStones is the set of
\* vertex ids marked dead; the scores are held in half points, KOMI = 7.5
\* being 15 half points.

KOMI == 15

\* the vertex carries a stone that is not marked dead
hasLiveStone(stones, dead, vid) ==
  vid \in DOMAIN stones /\ stones[vid] # "none" /\ vid \notin dead

\* "Count stones, excluding dead stones", counting the dead ones too
countStonesWithDead(stones, dead, color) ==
  Cardinality({vid \in DOMAIN stones : stones[vid] = color})

\* "Count stones, excluding dead stones"
countStones(stones, dead, color) ==
  Cardinality({vid \in DOMAIN stones : stones[vid] = color /\ vid \notin dead})

\* the flood fill from the vertices of region: the while loop over queue
RECURSIVE floodFill(_, _, _, _)
floodFill(vs, stones, dead, region) ==
  LET more == {nid \in UNION {vs[curr].neighbors : curr \in region} :
                 /\ nid \in DOMAIN vs
                 /\ vs[nid].visible # "false"
                 /\ ~hasLiveStone(stones, dead, nid)}
  IN IF more \subseteq region THEN region
     ELSE floodFill(vs, stones, dead, region \cup more)

\* borderingColors of the filled region
borderingColors(vs, stones, dead, region) ==
  {stones[nid] : nid \in {n \in UNION {vs[curr].neighbors : curr \in region} :
                            /\ n \in DOMAIN vs
                            /\ vs[n].visible # "false"
                            /\ hasLiveStone(stones, dead, n)}}

\* the owner of a region, a region without bordering stones going to white
regionOwnerOneColourAtMost(colors) ==
  IF Cardinality(colors) <= 1
  THEN IF "black" \in colors THEN "black" ELSE "white"
  ELSE "neutral"

\* the owner of a region with the given bordering colours
regionOwner(colors) ==
  IF Cardinality(colors) = 1
  THEN IF "black" \in colors THEN "black" ELSE "white"
  ELSE "neutral"

RECURSIVE scoreRegionsRevisiting(_, _, _, _, _, _)
\* mutant of scoreRegions: the points of a filled region are not marked
\* visited, so that a region is filled again from each of its points
scoreRegionsRevisiting(vs, stones, dead, i, visited, acc) ==
  IF i > Len(vs) THEN acc
  ELSE IF vs[i].visible = "false" \/ hasLiveStone(stones, dead, vs[i].id)
  THEN scoreRegionsRevisiting(vs, stones, dead, i + 1, visited, acc)
  ELSE LET region == floodFill(vs, stones, dead, {vs[i].id})
           owner == regionOwner(borderingColors(vs, stones, dead, region))
       IN scoreRegionsRevisiting(vs, stones, dead, i + 1, visited,
                                 [acc EXCEPT ![owner] = @ + Cardinality(region)])

\* the loop over the vertices from index i on, with the vertices visited so
\* far and the territory counted so far
RECURSIVE scoreRegions(_, _, _, _, _, _)
scoreRegions(vs, stones, dead, i, visited, acc) ==
  IF i > Len(vs) THEN acc
  ELSE IF vs[i].visible = "false" \/ hasLiveStone(stones, dead, vs[i].id)
          \/ vs[i].id \in visited
  THEN scoreRegions(vs, stones, dead, i + 1, visited, acc)
  ELSE LET region == floodFill(vs, stones, dead, {vs[i].id})
           owner == regionOwner(borderingColors(vs, stones, dead, region))
       IN scoreRegions(vs, stones, dead, i + 1, visited \cup region,
                       [acc EXCEPT ![owner] = @ + Cardinality(region)])

\* computeTrompTaylorScore on the vertices vs, the stone map and deadStones;
\* blackTotal, whiteTotal and komi in half points
computeTrompTaylorScore(vs, stones, dead) ==
  LET blackStones == countStones(stones, dead, "black")
      whiteStones == countStones(stones, dead, "white")
      territory == scoreRegions(vs, stones, dead, 1, {},
                                [black |-> 0, white |-> 0, neutral |-> 0])
  IN [blackStones |-> blackStones, whiteStones |-> whiteStones,
      blackTerritory |-> territory.black, whiteTerritory |-> territory.white,
      neutral |-> territory.neutral,
      blackTotal |-> 2 * (blackStones + territory.black),
      whiteTotal |-> 2 * (whiteStones + territory.white) + KOMI,
      komi |-> KOMI]

\* number of moves played before a position is scored, and number of stones
\* marked dead
MaxScoredMoves == 5
MaxDead == 2

\* the sets of stones that are marked dead
DeadSets ==
  {dead \in SUBSET {vid \in DOMAIN gameStones : gameStones[vid] # "none"} :
     Cardinality(dead) <= MaxDead}

\* the score of the position is computed with the stones of dead marked dead
ComputeScore(dead) ==
  /\ mode = "play"
  /\ lastOp' = Op("computeTrompTaylorScore", dead,
                  computeTrompTaylorScore(vertices, gameStones, dead))
  /\ UNCHANGED <<meshVars, uiVars, relaxVars, gameVars, gobanHistVars, gameHistVars,
                 preOp, preUndo>>

\* a move of the game that is scored
ScoredMove(vid) ==
  /\ Len(gameUndoStack) <= MaxScoredMoves
  /\ PlaceStone(vid)

NextScore ==
  \/ \E vid \in ClickVertices : ScoredMove(vid)
  \/ \E dead \in DeadSets : ComputeScore(dead)

SpecScore == InitGame /\ [][NextScore]_vars

----------------------------------------------------------------------------
\* Vocabulary of the claims about scoring, stated on the neighbour relation
\* for the position that was scored last

Scored == lastOp.name = "computeTrompTaylorScore"

\* the vertex holds a stone that is not marked dead
LiveStone(v) == gameStones[v] # "none" /\ v \notin lastOp.arg

\* a visible point that is empty or holds a dead-marked stone
OpenPoint(v) == vertices[v].visible # "false" /\ ~LiveStone(v)

RECURSIVE OpenRegionFrom(_)
OpenRegionFrom(S) ==
  LET T == S \cup {n \in DOMAIN vertices :
                     OpenPoint(n) /\ \E g \in S : n \in vertices[g].neighbors}
  IN IF T = S THEN S ELSE OpenRegionFrom(T)

\* the maximal connected region of open points that holds v
OpenRegion(v) == OpenRegionFrom({v})

\* the colours of the live stones that border the region
BorderColours(R) ==
  {gameStones[n] : n \in {m \in DOMAIN vertices :
                            LiveStone(m) /\ \E g \in R : m \in vertices[g].neighbors}}

\* the open points whose region is bordered by live stones of exactly the
\* colours cs
PointsBorderedBy(cs) ==
  {v \in DOMAIN vertices : OpenPoint(v) /\ BorderColours(OpenRegion(v)) = cs}

LiveStones(color) ==
  Cardinality({v \in DOMAIN gameStones : gameStones[v] = color /\ v \notin lastOp.arg})

\* C19: a region of visible points that are empty or hold a dead stone counts
\* its full size as black territory when the live stones bordering it are all
\* black, as white territory when they are all white, and as neutral when it
\* is bordered by both colours or by no live stone.
C19_TerritoryByBorder ==
  Scored =>
    /\ lastOp.outcome.blackTerritory = Cardinality(PointsBorderedBy({"black"}))
    /\ lastOp.outcome.whiteTerritory = Cardinality(PointsBorderedBy({"white"}))
    /\ lastOp.outcome.neutral =
         Cardinality(PointsBorderedBy({"black", "white"}) \cup PointsBorderedBy({}))

\* a position scored with a dead white stone inside black's territory and a
\* region bordered by both colours
C19_Witness ==
  /\ Scored
  /\ \E d \in lastOp.arg : gameStones[d] = "white" /\ d \in PointsBorderedBy({"black"})
  /\ lastOp.outcome.blackTerritory >= 2
  /\ PointsBorderedBy({"black", "white"}) # {}

\* C20: blackTotal is the live black stones plus black's territory, whiteTotal
\* the live white stones plus white's territory plus the komi of 7.5 (totals
\* in half points); dead-marked stones count as stones of neither colour and
\* black gets no komi.
C20_TotalsAndKomi ==
  Scored =>
    /\ lastOp.outcome.blackStones = LiveStones("black")
    /\ lastOp.outcome.whiteStones = LiveStones("white")
    /\ lastOp.outcome.blackTotal = 2 * (LiveStones("black") + lastOp.outcome.blackTerritory)
    /\ lastOp.outcome.whiteTotal =
         2 * (LiveStones("white") + lastOp.outcome.whiteTerritory) + 15
    /\ lastOp.outcome.komi = 15

\* a position scored with a dead black stone, live stones of both colours
\* and territory for white
C20_Witness ==
  /\ Scored
  /\ \E d \in lastOp.arg : gameStones[d] = "black"
  /\ LiveStones("black") >= 1
  /\ LiveStones("white") >= 1
  /\ lastOp.outcome.whiteTerritory >= 1
  /\ lastOp.outcome.whiteTotal > lastOp.outcome.blackTotal

----------------------------------------------------------------------------
\* The grid as built

\* the mesh is the one that buildGrid left: nothing was done since
\* startDesignMode
FreshGrid == lastOp.name = "startDesignMode"

\* C21: buildGrid with radius R creates exactly 1 + 3R(R+1) vertices, one for
\* each axial coordinate (q, r) with max(|q|, |r|, |q + r|) <= R, and the id
\* of each vertex is its index in the vertex array.
C21_GridVertices ==
  FreshGrid =>
    /\ Len(vertices) = 1 + 3 * HexRadius * (HexRadius + 1)
    /\ \A q, r \in (0 - HexRadius - 1)..(HexRadius + 1) :
         Cardinality({v \in DOMAIN vertices : vertices[v].q = q /\ vertices[v].r = r})
           = IF Max(Max(Abs(q), Abs(r)), Abs(q + r)) <= HexRadius THEN 1 ELSE 0
    /\ \A v \in DOMAIN vertices :
         /\ vertices[v].id = v
         /\ Abs(vertices[v].q) <= HexRadius + 1
         /\ Abs(vertices[v].r) <= HexRadius + 1

\* the fresh grid, with a vertex in a corner of the hexagon and the centre
C21_Witness ==
  /\ FreshGrid
  /\ Len(vertices) >= 19
  /\ \E v, c \in DOMAIN vertices :
       /\ vertices[v].q = HexRadius /\ vertices[v].r = 0 - HexRadius
       /\ vertices[c].q = 0 /\ vertices[c].r = 0

----------------------------------------------------------------------------
\* Relaxation frames

\* the step is a frame of draw that calls relaxVertices(1)
RelaxationTick == relaxing /\ relaxFrame' = relaxFrame + 1

\* C22 (as claimed): whenever a frame of draw runs a relaxation iteration, the
\* mesh has no active triangle, whatever undo, redo, quadrangulation steps
\* ran between the frames.
C22_RelaxOnQuadsOnly ==
  [][RelaxationTick => activeTriangleCount(triangles) = 0]_vars

----------------------------------------------------------------------------
\* Groups on the board

\* the empty points next to the chain of the stone on v
EmptyAround(v) ==
  {n \in DOMAIN gameStones :
     gameStones[n] = "none" /\ \E g \in ChainOf(gameStones, v) : n \in vertices[g].neighbors}

\* C23: in every game state reached from the empty board by placeStone, undo
\* and redo, every stone on the board belongs to a group with at least one
\* liberty.
C23_EveryGroupHasLiberty ==
  \A v \in DOMAIN gameStones : gameStones[v] # "none" => EmptyAround(v) # {}

\* after a committed capture: stones of both colours on the board, one
\* group of two stones or more with a single liberty
C23_Witness ==
  /\ lastOp.name = "placeStone"
  /\ lastOp.outcome = "commit"
  /\ capturedBlack + capturedWhite > 0
  /\ \E b, w \in DOMAIN gameStones :
       /\ gameStones[b] = "black"
       /\ gameStones[w] = "white"
       /\ Cardinality(ChainOf(gameStones, b)) >= 2
       /\ Cardinality(EmptyAround(b)) = 1

----------------------------------------------------------------------------
\* Dragging vertices of the grid, of a quadrangulated board and of a loaded
\* board

\* one of the boards that startAutoRemoveEdges makes of the grid
quadrangulatedGrid == CHOOSE m \in gridQuadrangulations : TRUE

\* the editor in move-vertex mode on the fresh grid, after the
\* quadrangulation of the grid, and after the load of the saved board record
InitDrag ==
  \/ Init
  \/ EditorState(quadrangulatedGrid,
                 <<captureStateSnapshot(buildGrid, "initial"),
                   captureStateSnapshot(buildGrid, "quadrangulation")>>, 1, "move-vertex",
                 null, Op("quadrangulation", null, "done"),
                 [ctx |-> "mesh", state |-> buildGrid])
  \/ EditorState(loadGoban(fileOf("record", buildGrid)).mesh,
                 <<captureStateSnapshot(buildGrid, "initial"),
                   captureStateSnapshot(loadGoban(fileOf("record", buildGrid)).mesh, "load")>>,
                 1, "move-vertex", null, Op("load", 1, "record"),
                 [ctx |-> "mesh", state |-> buildGrid])

\* the vertices the mouse is moved onto: an inner vertex of the grid, the
\* centre, an inner vertex of the loaded board, and the first vertices that
\* subdivideFaces appends (a midpoint and a face centre)
DragTargets ==
  {coordToId(0 - 1, 1), coordToId(0, 0), 4,
   Len(buildGrid.vertices) + 1, Len(buildGrid.vertices) + 2}

NextDrag ==
  \/ \E v \in DragTargets : MouseMoved([kind |-> "vertex", id |-> v])
  \/ MousePressed
  \/ \E dx \in DragDeltas : MouseDragged(dx)
  \/ MouseReleased
  \/ UndoStep
  \/ RedoStep

SpecDrag == InitDrag /\ [][NextDrag]_vars

\* the step is a mouseDragged event on the vertex that is dragged
DragStep ==
  /\ dragging # null
  /\ lastOp'.name = "moveVertex"
  /\ lastOp'.arg = dragging
  /\ (gobanUndoStack' # gobanUndoStack \/ vertices' # vertices)

\* the centre of the board
CentreVertex(v) == vertices[v].x = 0 /\ vertices[v].y = 0

\* C24 (as claimed): moveVertex(id, dx, dy) on a vertex that is neither on
\* the outer border nor the centre, midpoints and face centres of a
\* subdivision and vertices of a loaded mesh included, changes the position
\* of that vertex by exactly (dx, dy).
C24_MoveByDelta ==
  [][(DragStep /\ dragging \in DOMAIN vertices
      /\ vertices[dragging].type \notin {"edge", "center"} /\ ~CentreVertex(dragging))
     => \E dx \in DragDeltas :
          /\ vertices'[dragging].x = vertices[dragging].x + Res * dx
          /\ vertices'[dragging].y = vertices[dragging].y]_vars

----------------------------------------------------------------------------
\* Sequences of deleteEdgeMirrored calls on the grid

\* number of deleteEdgeMirrored calls in a sequence
MaxDeletions == 4

\* the edge ids passed to deleteEdgeMirrored: of every orbit of three edges
\* of the grid the edge with the least id, and an id that names no edge
DeleteTargets ==
  {e \in DOMAIN buildGrid.edges :
     \A p \in Range(peerEdges(buildGrid, buildGrid.edges[e])) : e <= p}
  \cup {Len(buildGrid.edges) + 1}

\* deleteEdgeMirrored(edgeId): captureState('edge-delete'), then the deletion
DeleteEdge(edgeId) ==
  /\ mode # "play"
  /\ gobanUndoIndex < MaxDeletions
  /\ captureState("edge-delete")
  /\ \E m2 \in {deleteEdgeMirrored(Mesh, edgeId)} :
       /\ SetMesh(m2)
       /\ lastOp' = Op("deleteEdge", edgeId, IF m2 = Mesh THEN "none" ELSE "done")
       /\ preOp' = IF m2 = Mesh THEN preOp ELSE Live
  /\ preUndo' = NoLive
  /\ UNCHANGED <<uiVars, relaxVars, gameVars>>

NextDelete == \E edgeId \in DeleteTargets : DeleteEdge(edgeId)

SpecDelete == Init /\ [][NextDelete]_vars


\* the edge between the i-th peers of the endpoints of edge e (null if none)
Counterpart(vs, es, e, i) ==
  edgeByKey(es, edgeKey(vs[es[e].a].peers[i], vs[es[e].b].peers[i]))

\* an edge is active exactly when its two orbit counterparts are
ThreefoldSymmetric(vs, es) ==
  \A e \in DOMAIN es : \A i \in {2, 3} :
    /\ Counterpart(vs, es, e, i) # null
    /\ es[Counterpart(vs, es, e, i)].active = es[e].active

\* the step is a call of deleteEdgeMirrored
DeleteCall == lastOp'.name = "deleteEdge" /\ gobanUndoStack' # gobanUndoStack

\* the edges that the step deactivates
Deactivated == {e \in DOMAIN edges : edges[e].active /\ ~edges'[e].active}

\* C25: from the fresh grid, after any sequence of deleteEdgeMirrored calls
\* an edge {a, b} is active exactly when the edges between the peers of a and
\* b are; each call leaves the mesh unchanged or merges the three orbit
\* counterparts together (three edges go, three quads come).
C25_DeletionsKeepSymmetry ==
  [][DeleteCall =>
       /\ ThreefoldSymmetric(vertices', edges')
       /\ \/ UNCHANGED meshVars
          \/ /\ lastOp'.arg \in DOMAIN edges
             /\ Deactivated = {lastOp'.arg, Counterpart(vertices, edges, lastOp'.arg, 2),
                               Counterpart(vertices, edges, lastOp'.arg, 3)}
             /\ Cardinality(Deactivated) = 3
             /\ activeQuadCount(quads') = activeQuadCount(quads) + 3
             /\ activeTriangleCount(triangles') = activeTriangleCount(triangles) - 6]_vars

\* four calls that merged all triangles of the grid into quads
C25_Witness ==
  /\ lastOp.name = "deleteEdge"
  /\ lastOp.outcome = "done"
  /\ gobanUndoIndex = 4
  /\ activeTriangleCount(triangles) = 0
  /\ activeQuadCount(quads) = 12
  /\ ThreefoldSymmetric(vertices, edges)


\* the active triangles that have both endpoints of edge e among their corners
SharingTriangles(e) ==
  {t \in DOMAIN triangles :
     /\ triangles[t].active
     /\ edges[e].a \in Range(triangles[t].verts)
     /\ edges[e].b \in Range(triangles[t].verts)}

\* edge id is active and shared by exactly two active triangles
Deletable(id) ==
  /\ id \in DOMAIN edges
  /\ edges[id].active
  /\ Cardinality(SharingTriangles(id)) = 2

\* C26: deleteEdge(id) changes the mesh only if edge id is active and shared
\* by exactly 2 active triangles; otherwise no edge, triangle, quad or
\* neighbour set changes, for the edge and for its orbit counterparts.
C26_DeleteOnlyBetweenTwoTriangles ==
  [][(DeleteCall /\ ~Deletable(lastOp'.arg)) => UNCHANGED meshVars]_vars

\* after merges, a call on an active edge that a single active triangle has
\* left, and a call on an id that names no edge
C26_Witness ==
  /\ lastOp.name = "deleteEdge"
  /\ lastOp.outcome = "none"
  /\ lastOp.arg \in DOMAIN edges
  /\ edges[lastOp.arg].active
  /\ Cardinality(SharingTriangles(lastOp.arg)) = 1
  /\ activeQuadCount(quads) >= 3
  /\ gobanUndoStack[gobanUndoIndex + 1].quads = quads

----------------------------------------------------------------------------
\* History entries and the live state

\* the step leaves the entries of the stack as they are, or replaces the
\* entries beyond some index by one new entry
EntriesKept(stack, stack2) ==
  \/ stack2 = stack
  \/ /\ Len(stack2) >= 1
     /\ Len(stack2) - 1 <= Len(stack)
     /\ \A i \in 1..(Len(stack2) - 1) : stack2[i] = stack[i]

----------------------------------------------------------------------------
\* Play mode with the keys and buttons that stay live in it: key 'r'
\* (startRelaxation), the frames of draw, undo and redo

\* number of moves of a game in which the relaxation key is pressed
MaxRelaxedMoves == 2

\* a move of such a game
RelaxedMove(vid) ==
  /\ Len(gameUndoStack) <= MaxRelaxedMoves
  /\ PlaceStone(vid)

\* key 'r', pressed while the board is as it was loaded
RelaxationKey ==
  /\ vertices = restoreGoban(GameRecord).vertices
  /\ StartRelaxation

NextPlayKeys ==
  \/ \E vid \in ClickVertices : RelaxedMove(vid)
  \/ RelaxationKey
  \/ Draw
  \/ UndoStep
  \/ RedoStep

SpecPlayKeys == InitGame /\ [][NextPlayKeys]_vars

\* the operations that change the mesh
MeshOps == {"deleteEdge", "moveVertex", "quadrangulation", "startRelaxation", "load"}

\* C28 (as claimed): snapshots of mesh-mutating operations are recorded only
\* on the mesh stack and snapshots of game moves only on the game stack; undo
\* and redo in one interaction context leave the live state, the stack and
\* the index of the other context unchanged.
C28_StacksIndependent ==
  [][/\ gameUndoStack' # gameUndoStack => lastOp'.name = "placeStone"
     /\ gobanUndoStack' # gobanUndoStack => lastOp'.name \in MeshOps
     /\ (gameUndoIndex' # gameUndoIndex /\ gameUndoStack' = gameUndoStack)
          => UNCHANGED <<meshVars, gobanHistVars>>
     /\ (gobanUndoIndex' # gobanUndoIndex /\ gobanUndoStack' = gobanUndoStack)
          => UNCHANGED <<gameVars, gameHistVars>>]_vars

----------------------------------------------------------------------------
\* Games on the two left quads of the loaded board, where a position can
\* come back after more than two moves

\* the vertices the players click on in these games
CycleVertices == {1, 2, 3, 4, 6, 7}

NextCycle ==
  \/ \E vid \in CycleVertices : PlaceStone(vid)
  \/ UndoStep
  \/ RedoStep

SpecCycle == InitGame /\ [][NextCycle]_vars


\* the positions of the game before the one that preceded the opponent's
\* last move
EarlierPositions == {gameUndoStack[k].stones : k \in 1..(gameUndoIndex - 1)}

\* C29: placeStone answers "ko" only when the board after the captures
\* equals the single board that preceded the opponent's last move; a legal
\* move whose resulting board differs from that board is committed, also
\* when the result equals another earlier position of the game.
C29_KoScope ==
  [][(IsPlaceStone(Outcomes) /\ gameStones[lastOp'.arg] = "none") =>
       \A result \in {AfterMove(gameStones, lastOp'.arg, currentPlayer)} :
          /\ lastOp'.outcome = "ko"
               => (previousBoardState # nullBoard /\ result = previousBoardState)
          /\ (/\ vertices[lastOp'.arg].visible # "false"
              /\ (previousBoardState = nullBoard \/ result # previousBoardState)
              /\ LibertiesOf(result, lastOp'.arg) # {})
               => (lastOp'.outcome = "commit" /\ gameStones' = result)
     ]_vars

\* C29 witness: the move just committed recreated a position that the game
\* had at least three moves ago
C29_Witness ==
  /\ lastOp.name = "placeStone" /\ lastOp.outcome = "commit"
  /\ gameUndoIndex + 1 = Len(gameUndoStack)
  /\ gameUndoStack[gameUndoIndex + 1].stones = gameStones
  /\ gameStones \in EarlierPositions
  /\ gameStones # previousBoardState


\* C30 (as claimed): in every reachable mesh state each vertex of every
\* active triangle has the triangle's id in its owning triangle set, and
\* each vertex of every active quad has the quad's id in its owning quad set.
C30_FacesOwned ==
  /\ \A t \in DOMAIN triangles :
       triangles[t].active =>
         \A v \in Range(triangles[t].verts) :
           v \in DOMAIN vertices /\ triangles[t].id \in vertices[v].triangles
  /\ \A q \in DOMAIN quads :
       quads[q].active =>
         \A v \in Range(quads[q].verts) :
           v \in DOMAIN vertices /\ quads[q].id \in vertices[v].quads


\* every face of store a is in store b under the same id with the same
\* vertex list
FacesKept(a, b) ==
  \A i \in DOMAIN a :
    i \in DOMAIN b /\ b[i].id = a[i].id /\ b[i].verts = a[i].verts

\* a step of deleteEdge or of the automatic quadrangulation (with its
\* subdivision) that was carried out
FaceEditStep ==
  /\ lastOp'.name \in {"deleteEdge", "quadrangulation"}
  /\ lastOp'.outcome = "done"
  /\ gobanUndoStack' # gobanUndoStack

\* C31 (as claimed): deleteEdge, automatic quadrangulation and subdivision
\* only soft-delete faces: every triangle id and quad id that existed before
\* the operation still exists after it and denotes the same vertex list.
C31_SoftDeleteOnly ==
  [][FaceEditStep => (FacesKept(triangles, triangles') /\ FacesKept(quads, quads'))]_vars


\* the mesh was just rebuilt from its quads: by the subdivision of the
\* automatic quadrangulation, or by a load that went through
RebuiltFromQuads ==
  \/ lastOp.name = "quadrangulation" /\ lastOp.outcome = "done"
  \/ lastOp.name = "load" /\ lastOp.arg = 1

\* a and b are cyclically consecutive in some active quad
QuadConsecutive(a, b) ==
  \E q \in DOMAIN quads :
    /\ quads[q].active
    /\ \E i \in DOMAIN quads[q].verts :
         LET j == (i % Len(quads[q].verts)) + 1
         IN \/ quads[q].verts[i] = a /\ quads[q].verts[j] = b
            \/ quads[q].verts[i] = b /\ quads[q].verts[j] = a

ActiveEdgeBetween(a, b) ==
  \E e \in DOMAIN edges :
    edges[e].active /\ {edges[e].a, edges[e].b} = {a, b}

\* C32: after subdivideFaces and after loading a mesh, b is a neighbour of a
\* exactly when a and b are cyclically consecutive in some active quad, the
\* relation is symmetric, and an active edge exists for exactly those pairs.
C32_NeighboursFromQuads ==
  RebuiltFromQuads =>
    \A a \in DOMAIN vertices :
      /\ vertices[a].neighbors = {b \in DOMAIN vertices : QuadConsecutive(a, b)}
      /\ \A b \in vertices[a].neighbors : a \in vertices[b].neighbors
      /\ \A b \in DOMAIN vertices : ActiveEdgeBetween(a, b) <=> QuadConsecutive(a, b)

\* C32 witness: a board with quads was loaded and its vertices have neighbours
C32_Witness ==
  /\ lastOp.name = "load" /\ lastOp.arg = 1
  /\ \E q \in DOMAIN quads : quads[q].active
  /\ \E a \in DOMAIN vertices : Cardinality(vertices[a].neighbors) >= 3


\* the active quads that have a and b as cyclically consecutive vertices
QuadsAlong(a, b) ==
  {q \in DOMAIN quads :
     /\ quads[q].active
     /\ \E i \in DOMAIN quads[q].verts :
          {quads[q].verts[i], quads[q].verts[(i % Len(quads[q].verts)) + 1]} = {a, b}}

InActiveQuad(v) == \E q \in DOMAIN quads : quads[q].active /\ v \in Range(quads[q].verts)

\* v is an endpoint of an active edge that borders exactly one active quad
OnBoundary(v) ==
  \E e \in DOMAIN edges :
    /\ edges[e].active
    /\ v \in {edges[e].a, edges[e].b}
    /\ Cardinality(QuadsAlong(edges[e].a, edges[e].b)) = 1

Quadrangulated == lastOp.name = "quadrangulation" /\ lastOp.outcome = "done"

----------------------------------------------------------------------------
\* The merge pass of applyGuaranteedQuadrangulation on its own, on the grid
\* and on the grids the mirrored deletions leave

Merged == lastOp.name = "mergeTrianglesRandomly"

\* deleteEdgeMirrored, before the pass
MergeInput(edgeId) ==
  /\ ~Merged
  /\ DeleteEdge(edgeId)

\* applyGuaranteedQuadrangulation up to and including mergeTrianglesRandomly
MergePass ==
  /\ ~Merged
  /\ mode # "play"
  /\ activeTriangleCount(triangles) > 0
  /\ captureState("quadrangulation")
  /\ \E m2 \in mergeTrianglesRandomly(prepareQuadrangulation(Mesh)) : SetMesh(m2)
  /\ lastOp' = Op("mergeTrianglesRandomly", null, "done")
  /\ preOp' = Live
  /\ preUndo' = NoLive
  /\ UNCHANGED <<uiVars, relaxVars, gameVars>>

NextMerge ==
  \/ \E edgeId \in DeleteTargets : MergeInput(edgeId)
  \/ MergePass

SpecMerge == Init /\ [][NextMerge]_vars

\* the triangles that the pass starts with: active, with no vertex outside
\* the radius that the quadrangulation keeps
PassTriangles ==
  {t \in DOMAIN triangles :
     /\ triangles[t].active
     /\ \A v \in Range(triangles[t].verts) : vertexDist(vertices[v]) <= HexRadius \div 2}

----------------------------------------------------------------------------
\* The random goban of the menu: generateRandomGoban and the frames of draw
\* that follow it

\* relaxMaxFrames = 100
RandomRelaxFrames == 100

\* generateRandomGoban, after its timer ran: buildGrid, the quadrangulation
\* (which captures the grid on the empty editing history) and the start of
\* the relaxation
InitRandom ==
  \E m \in gridQuadrangulations :
    /\ vertices = m.vertices
    /\ edges = m.edges
    /\ edgeTris = m.edgeTris
    /\ triangles = m.triangles
    /\ quads = m.quads
    /\ gobanUndoStack = <<captureStateSnapshot(buildGrid, "quadrangulation")>>
    /\ gobanUndoIndex = 0
    /\ mode = "move-vertex"
    /\ hoverVertex = null
    /\ hoverEdge = null
    /\ dragging = null
    /\ dragStateCapture = FALSE
    /\ relaxing = TRUE
    /\ relaxFrame = 0
    /\ relaxMaxFrames = RandomRelaxFrames
    /\ autoRemoving = FALSE
    /\ gameStones = emptyBoard(buildGrid.vertices)
    /\ currentPlayer = "black"
    /\ capturedBlack = 0
    /\ capturedWhite = 0
    /\ previousBoardState = nullBoard
    /\ gameUndoStack = <<>>
    /\ gameUndoIndex = 0 - 1
    /\ lastOp = Op("generateRandomGoban", null, "done")
    /\ preOp = NoLive
    /\ preUndo = NoLive

SpecRandom == InitRandom /\ [][Draw]_vars

\* C36 (as claimed): the relaxation that generateRandomGoban starts calls
\* relaxVertices once per draw tick, exactly 100 times, and then stops with
\* relaxing = false.  In this run relaxFrame counts the calls: it starts at
\* 0 and every frame that calls relaxVertices raises it by one.
C36_HundredIterations ==
  [][/\ (lastOp'.name = "draw" /\ lastOp'.outcome = "relax")
          => (relaxing' /\ relaxFrame' = relaxFrame + 1)
     /\ (relaxing /\ ~relaxing') => relaxFrame = RandomRelaxFrames]_vars


\* the vertex that is dragged is on the outer border or is the centre (of
\* the grid, where its type is 'inner', or of a file that calls it 'center')
DraggingFixedVertex ==
  /\ dragging \in DOMAIN vertices
  /\ \/ vertices[dragging].type \in {"edge", "center"}
     \/ dragging = coordToId(0, 0) /\ CentreVertex(dragging)

LatticeAdjacent(a, b) ==
  Max(Max(Abs(vertices[a].q - vertices[b].q), Abs(vertices[a].r - vertices[b].r)),
      Abs(vertices[a].q + vertices[a].r - vertices[b].q - vertices[b].r)) = 1

\* an edge along the rim of the hexagon
RimEdge(e) ==
  /\ Max(Max(Abs(vertices[e.a].q), Abs(vertices[e.a].r)),
         Abs(vertices[e.a].q + vertices[e.a].r)) = HexRadius
  /\ Max(Max(Abs(vertices[e.b].q), Abs(vertices[e.b].r)),
         Abs(vertices[e.b].q + vertices[e.b].r)) = HexRadius

\* the triangles that have both endpoints of edge e
TrianglesOn(e) == {t \in DOMAIN triangles : {e.a, e.b} \subseteq Range(triangles[t].verts)}

\* C38: buildGrid with radius R emits every lattice triangle exactly once:
\* 6R^2 triangles, no two with the same vertex set, each of three mutually
\* adjacent vertices; the edge-to-triangle index lists for every edge the
\* triangles on it, two for an interior edge and one for an edge of the rim.
C38_GridTriangles ==
  FreshGrid =>
    /\ Len(triangles) = 6 * HexRadius * HexRadius
    /\ \A t \in DOMAIN triangles :
         /\ triangles[t].active
         /\ Cardinality(Range(triangles[t].verts)) = 3
         /\ \A a, b \in Range(triangles[t].verts) :
              a # b => (LatticeAdjacent(a, b) /\ b \in vertices[a].neighbors)
         /\ \A u \in DOMAIN triangles :
              Range(triangles[u].verts) = Range(triangles[t].verts) => u = t
    /\ \A a, b, c \in DOMAIN vertices :
         (LatticeAdjacent(a, b) /\ LatticeAdjacent(b, c) /\ LatticeAdjacent(a, c))
           => \E t \in DOMAIN triangles : Range(triangles[t].verts) = {a, b, c}
    /\ \A e \in DOMAIN edges :
         /\ edgeKey(edges[e].a, edges[e].b) \in DOMAIN edgeTris
         /\ Len(edgeTris[edgeKey(edges[e].a, edges[e].b)])
              = IF RimEdge(edges[e]) THEN 1 ELSE 2
         /\ {triangles[t].id : t \in TrianglesOn(edges[e])}
              = Range(edgeTris[edgeKey(edges[e].a, edges[e].b)])

\* C38 witness: the fresh grid with its 6R^2 triangles, an interior edge and
\* an edge of the rim
C38_Witness ==
  /\ FreshGrid
  /\ Len(triangles) >= 24
  /\ \E e, f \in DOMAIN edges :
       /\ RimEdge(edges[e]) /\ Cardinality(TrianglesOn(edges[e])) = 1
       /\ ~RimEdge(edges[f]) /\ Cardinality(TrianglesOn(edges[f])) = 2


\* the boards on which a placeStone(vid) call on an empty point counts
\* liberties: with the stone placed, and after the captures
LibertyBoards(vid) ==
  {[gameStones EXCEPT ![vid] = currentPlayer], AfterMove(gameStones, vid, currentPlayer)}

\* C39: getGroupLiberties(vid) is the number of distinct empty, visible
\* vertices adjacent to a stone of the same-colour connected group of vid
\* (0 when vid holds no stone), it is the same for every member of the
\* group, and the single-pass version of common.js returns the same value.
C39_LibertyCount ==
  [][(IsPlaceStone(Outcomes) /\ gameStones[lastOp'.arg] = "none") =>
       \A board \in LibertyBoards(lastOp'.arg) :
         \A v \in DOMAIN board :
           /\ getGroupLiberties(board, v)
                = IF board[v] = "none" THEN 0 ELSE Cardinality(LibertiesOf(board, v))
           /\ getGroupLibertiesCommon(board, v) = getGroupLiberties(board, v)
           /\ board[v] # "none" =>
                \A w \in ChainOf(board, v) :
                  getGroupLiberties(board, w) = getGroupLiberties(board, v)
     ]_vars

\* C39 witness: after a committed move a group of three stones has a liberty
\* that touches two of its stones
C39_Witness ==
  /\ lastOp.name = "placeStone" /\ lastOp.outcome = "commit"
  /\ \E v \in DOMAIN gameStones :
       /\ gameStones[v] # "none"
       /\ Cardinality(ChainOf(gameStones, v)) >= 3
       /\ \E n \in LibertiesOf(gameStones, v) :
            Cardinality(vertices[n].neighbors \cap ChainOf(gameStones, v)) >= 2


\* the points of the board: the vertices that are not marked invisible
VisiblePoints == {v \in DOMAIN vertices : vertices[v].visible # "false"}

====
